---- MODULE Spec2Model ----
(***************************************************************************)
(* Model of the Clash output generator of subconverter-rs                  *)
(* (src/generator/exports/proxy_to_clash.rs) and of the handlers of        *)
(* /getprofile and /getruleset (src/web_handlers/web_api.rs).              *)
(*                                                                         *)
(* proxy_to_clash, proxy_to_clash_yaml and build_clash_script_parts are    *)
(* pure functions of their arguments; each is an operator computed the way *)
(* the code computes it, and each has an action that applies it to inputs  *)
(* drawn by the initial predicate of its specification.                    *)
(*                                                                         *)
(* Strings are TLA+ strings.  Option<T> is a sequence of length 0 or 1.    *)
(* A YAML value is a tagged record: [t |-> "null"], [t |-> "str", s |-> _],*)
(* [t |-> "seq", q |-> _] or [t |-> "map", m |-> _], a mapping being the   *)
(* insertion-ordered sequence of its <<key, value>> pairs.  Transport      *)
(* fields of a proxy and the udp/tfo/skip-cert-verify defaults are not     *)
(* part of the model.                                                      *)
(***************************************************************************)
EXTENDS Integers, Sequences, FiniteSets, TLC

VARIABLES pc, nodes, yaml_node, base_conf, ruleset_content_array,
          extra_proxy_group, clash_r, ext, output, script_parts,
          settings, query, world, calls, response

vars == <<pc, nodes, yaml_node, base_conf, ruleset_content_array,
          extra_proxy_group, clash_r, ext, output, script_parts,
          settings, query, world, calls, response>>

\* The variables of the HTTP handlers (web_handlers/web_api.rs).
web_vars == <<settings, query, world, calls, response>>

(***************************************************************************)
(* Bounds of the model.                                                    *)
(***************************************************************************)
MaxNodes == 2

MaxGroups == 2

MaxTemplateGroups == 2

MaxRulesets == 2

(***************************************************************************)
(* Option and string helpers (Rust's str methods, computed on characters). *)
(***************************************************************************)
None == <<>>

Some(x) == <<x>>

unwrap_or(o, d) == IF o = None THEN d ELSE o[1]

Range(s) == {s[i] : i \in DOMAIN s}

Char(s, i) == SubSeq(s, i, i)

starts_with(s, p) == Len(s) >= Len(p) /\ SubSeq(s, 1, Len(p)) = p

ends_with(s, p) == Len(s) >= Len(p) /\ SubSeq(s, Len(s) - Len(p) + 1, Len(s)) = p

IsSpace(c) == c \in {" ", "\t", "\n", "\r"}

RECURSIVE trim_start(_)
trim_start(s) ==
    IF Len(s) > 0 /\ IsSpace(Char(s, 1)) THEN trim_start(SubSeq(s, 2, Len(s))) ELSE s

RECURSIVE trim_end(_)
trim_end(s) ==
    IF Len(s) > 0 /\ IsSpace(Char(s, Len(s))) THEN trim_end(SubSeq(s, 1, Len(s) - 1)) ELSE s

trim(s) == trim_end(trim_start(s))

\* Position of the first occurrence of the character c in s, 0 when absent.
RECURSIVE find_from(_, _, _)
find_from(s, c, i) ==
    IF i > Len(s) THEN 0
    ELSE IF Char(s, i) = c THEN i
    ELSE find_from(s, c, i + 1)

find(s, c) == find_from(s, c, 1)

\* Position of the last occurrence of the character c in s, 0 when absent.
RECURSIVE rfind_from(_, _, _)
rfind_from(s, c, i) ==
    IF i < 1 THEN 0
    ELSE IF Char(s, i) = c THEN i
    ELSE rfind_from(s, c, i - 1)

rfind(s, c) == rfind_from(s, c, Len(s))

\* s.split(c): the pieces between the occurrences of c (always at least one).
RECURSIVE split(_, _)
split(s, c) ==
    LET i == find(s, c) IN
    IF i = 0 THEN <<s>>
    ELSE <<SubSeq(s, 1, i - 1)>> \o split(SubSeq(s, i + 1, Len(s)), c)

\* s.lines(): split on "\n", no final empty line, a trailing "\r" dropped.
RECURSIVE lines(_)
lines(s) ==
    IF s = "" THEN <<>>
    ELSE LET i == find(s, "\n")
             strip_cr(l) == IF ends_with(l, "\r") THEN SubSeq(l, 1, Len(l) - 1) ELSE l
         IN IF i = 0 THEN <<strip_cr(s)>>
            ELSE <<strip_cr(SubSeq(s, 1, i - 1))>> \o lines(SubSeq(s, i + 1, Len(s)))

(***************************************************************************)
(* The catalogs: the three lazy_static sets.                               *)
(***************************************************************************)
CLASH_SSR_CIPHERS ==
    {"aes-128-cfb", "aes-192-cfb", "aes-256-cfb", "aes-128-ctr", "aes-192-ctr",
     "aes-256-ctr", "aes-128-ofb", "aes-192-ofb", "aes-256-ofb", "des-cfb",
     "bf-cfb", "cast5-cfb", "rc4-md5", "chacha20", "chacha20-ietf", "salsa20",
     "camellia-128-cfb", "camellia-192-cfb", "camellia-256-cfb", "idea-cfb",
     "rc2-cfb", "seed-cfb"}

CLASHR_PROTOCOLS ==
    {"origin", "auth_sha1_v4", "auth_aes128_md5", "auth_aes128_sha1",
     "auth_chain_a", "auth_chain_b"}

CLASHR_OBFS ==
    {"plain", "http_simple", "http_post", "random_head", "tls1.2_ticket_auth",
     "tls1.2_ticket_fastauth"}

(***************************************************************************)
(* YAML values (serde_yaml::Value, Mapping, Sequence).                     *)
(***************************************************************************)
YNull == [t |-> "null"]

YStr(s) == [t |-> "str", s |-> s]

YSeq(q) == [t |-> "seq", q |-> q]

YMap(m) == [t |-> "map", m |-> m]

is_null(y) == y.t = "null"

is_mapping(y) == y.t = "map"

\* Index of key k among the pairs m, 0 when absent.
key_index(m, k) ==
    IF \E i \in DOMAIN m : m[i][1] = k
    THEN CHOOSE i \in DOMAIN m : m[i][1] = k /\ \A j \in 1..(i - 1) : m[j][1] # k
    ELSE 0

\* Mapping::get as an Option.
map_get(m, k) == IF key_index(m, k) = 0 THEN None ELSE Some(m[key_index(m, k)][2])

\* Mapping::insert: an existing key keeps its position and takes the new value,
\* a new key goes last.
map_insert(m, k, v) ==
    IF key_index(m, k) = 0 THEN Append(m, <<k, v>>)
    ELSE [m EXCEPT ![key_index(m, k)] = <<k, v>>]

\* Mapping::remove is a swap_remove: the last pair takes the removed one's place.
map_remove(m, k) ==
    LET i == key_index(m, k) IN
    IF i = 0 THEN m
    ELSE IF i = Len(m) THEN SubSeq(m, 1, Len(m) - 1)
    ELSE [j \in 1..(Len(m) - 1) |-> IF j = i THEN m[Len(m)] ELSE m[j]]

\* Value::get(key): defined on mappings only.
yaml_get(y, k) == IF is_mapping(y) THEN map_get(y.m, k) ELSE None

\* yaml_insert that starts the mapping anew with the inserted pair.
yaml_insert_fresh(y, k, v) == IF is_mapping(y) THEN YMap(<< <<k, v>> >>) ELSE y

\* What yaml_node.as_mapping_mut() lets the caller do: insert into a mapping,
\* nothing on any other value.
yaml_insert(y, k, v) == IF is_mapping(y) THEN YMap(map_insert(y.m, k, v)) ELSE y

yaml_keys(y) == IF is_mapping(y) THEN {y.m[i][1] : i \in DOMAIN y.m} ELSE {}

(***************************************************************************)
(* Proxies (models::Proxy): proxy_type, remark, encrypt_method, protocol,  *)
(* obfs (Options) and snell_version.                                       *)
(***************************************************************************)
\* ProxyType::to_string, the name put in front of a remark.
proxy_type_name(t) ==
    CASE t = "Shadowsocks" -> "SS"
      [] t = "ShadowsocksR" -> "SSR"
      [] OTHER -> t

\* The "type" field of the serialized proxy.
clash_type(t) ==
    CASE t = "Shadowsocks" -> "ss"
      [] t = "ShadowsocksR" -> "ssr"
      [] t = "VMess" -> "vmess"
      [] t = "Snell" -> "snell"
      [] t = "HTTPS" -> "http"
      [] OTHER -> "unknown"

\* process_remark(remark, remarks_list, false): on collision " 2", " 3", ...
\* is appended to the remark until it is in the list no more.
RECURSIVE process_remark_from(_, _, _)
process_remark_from(remark, remarks_list, cnt) ==
    LET temp == remark \o " " \o ToString(cnt) IN
    IF temp \in Range(remarks_list)
    THEN process_remark_from(remark, remarks_list, cnt + 1)
    ELSE temp

process_remark(remark, remarks_list) ==
    IF remark \in Range(remarks_list)
    THEN process_remark_from(remark, remarks_list, 2)
    ELSE remark

\* should_skip with the cipher test not relaxed for ClashR.
should_skip_cipher_always(node, clashr, e) ==
    CASE node.proxy_type = "Snell" /\ node.snell_version >= 4 -> TRUE
      [] node.proxy_type = "Shadowsocks" /\ e.filter_deprecated
            /\ node.encrypt_method = Some("chacha20") -> TRUE
      [] node.proxy_type = "ShadowsocksR" /\ e.filter_deprecated ->
            \/ unwrap_or(node.encrypt_method, "") \notin CLASH_SSR_CIPHERS
            \/ unwrap_or(node.protocol, "") \notin CLASHR_PROTOCOLS
            \/ unwrap_or(node.obfs, "") \notin CLASHR_OBFS
      [] node.proxy_type \in {"Unknown", "HTTPS"} -> TRUE
      [] OTHER -> FALSE

\* should_skip with the Shadowsocks arm testing the wrong cipher name.
should_skip_wrong_ss_cipher(node, clashr, e) ==
    CASE node.proxy_type = "Snell" /\ node.snell_version >= 4 -> TRUE
      [] node.proxy_type = "Shadowsocks" /\ e.filter_deprecated
            /\ node.encrypt_method = Some("chacha20-ietf") -> TRUE
      [] node.proxy_type = "ShadowsocksR" /\ e.filter_deprecated ->
            \/ (~clashr /\ unwrap_or(node.encrypt_method, "") \notin CLASH_SSR_CIPHERS)
            \/ unwrap_or(node.protocol, "") \notin CLASHR_PROTOCOLS
            \/ unwrap_or(node.obfs, "") \notin CLASHR_OBFS
      [] node.proxy_type \in {"Unknown", "HTTPS"} -> TRUE
      [] OTHER -> FALSE

\* should_skip without HTTPS in its last arm.
should_skip_unknown_only(node, clashr, e) ==
    CASE node.proxy_type = "Snell" /\ node.snell_version >= 4 -> TRUE
      [] node.proxy_type = "Shadowsocks" /\ e.filter_deprecated
            /\ node.encrypt_method = Some("chacha20") -> TRUE
      [] node.proxy_type = "ShadowsocksR" /\ e.filter_deprecated ->
            \/ (~clashr /\ unwrap_or(node.encrypt_method, "") \notin CLASH_SSR_CIPHERS)
            \/ unwrap_or(node.protocol, "") \notin CLASHR_PROTOCOLS
            \/ unwrap_or(node.obfs, "") \notin CLASHR_OBFS
      [] node.proxy_type = "Unknown" -> TRUE
      [] OTHER -> FALSE

\* The match of the proxy loop that decides should_skip.
should_skip(node, clashr, e) ==
    CASE node.proxy_type = "Snell" /\ node.snell_version >= 4 -> TRUE
      [] node.proxy_type = "Shadowsocks" /\ e.filter_deprecated
            /\ node.encrypt_method = Some("chacha20") -> TRUE
      [] node.proxy_type = "ShadowsocksR" /\ e.filter_deprecated ->
            LET encrypt_method == unwrap_or(node.encrypt_method, "")
                protocol == unwrap_or(node.protocol, "")
                obfs == unwrap_or(node.obfs, "")
            IN  \/ (~clashr /\ encrypt_method \notin CLASH_SSR_CIPHERS)
                \/ protocol \notin CLASHR_PROTOCOLS
                \/ obfs \notin CLASHR_OBFS
      [] node.proxy_type \in {"Unknown", "HTTPS"} -> TRUE
      [] OTHER -> FALSE

\* An optional field of a serialized mapping: absent when the Option is None.
opt_pair(k, o) == IF o = None THEN <<>> ELSE << <<k, YStr(o[1])>> >>

\* ClashProxyOutput::from(node.clone().set_remark(remark)), as a YAML mapping.
clash_proxy_output(node, remark) ==
    YMap(<< <<"name", YStr(remark)>>, <<"type", YStr(clash_type(node.proxy_type))>> >>
         \o opt_pair("cipher", node.encrypt_method)
         \o opt_pair("protocol", node.protocol)
         \o opt_pair("obfs", node.obfs)
         \o (IF node.proxy_type = "Snell"
             THEN << <<"version", YStr(ToString(node.snell_version))>> >>
             ELSE <<>>))

\* One iteration of the proxy loop on the accumulators remarks_list and
\* proxies_json.
proxy_loop_step(acc, node, clashr, e) ==
    LET prefixed == IF e.append_proxy_type
                    THEN "[" \o proxy_type_name(node.proxy_type) \o "] " \o node.remark
                    ELSE node.remark
        remark == process_remark(prefixed, acc.remarks_list)
        remarks == Append(acc.remarks_list, remark)
    IN  IF should_skip(node, clashr, e)
        THEN [remarks_list |-> remarks, proxies_json |-> acc.proxies_json]
        ELSE [remarks_list |-> remarks,
              proxies_json |-> Append(acc.proxies_json, clash_proxy_output(node, remark))]

RECURSIVE proxy_loop(_, _, _, _, _)
proxy_loop(ns, i, acc, clashr, e) ==
    IF i > Len(ns) THEN acc
    ELSE proxy_loop(ns, i + 1, proxy_loop_step(acc, ns[i], clashr, e), clashr, e)

(***************************************************************************)
(* Groups: a config is [name, group_type, proxies, using_provider].        *)
(***************************************************************************)
\* p occurs in s.
contains(s, p) == \E i \in 1..(Len(s) - Len(p) + 1) : SubSeq(s, i, i + Len(p) - 1) = p

RECURSIVE push_matching(_, _, _, _)
push_matching(pattern, ns, i, filtered) ==
    IF i > Len(ns) THEN filtered
    ELSE LET r == ns[i].remark
             hit == (pattern = ".*" \/ contains(r, pattern)) /\ r \notin Range(filtered)
         IN push_matching(pattern, ns, i + 1, IF hit THEN Append(filtered, r) ELSE filtered)

\* group_generate(pattern, nodes, filtered_nodes, true, ext): "[]X" adds the
\* literal X, any other pattern adds the remarks of the nodes it matches that
\* are not in the list yet.
group_generate(pattern, ns, filtered) ==
    IF starts_with(pattern, "[]")
    THEN Append(filtered, SubSeq(pattern, 3, Len(pattern)))
    ELSE push_matching(pattern, ns, 1, filtered)

RECURSIVE expand_patterns(_, _, _, _)
expand_patterns(patterns, i, ns, filtered) ==
    IF i > Len(patterns) THEN filtered
    ELSE expand_patterns(patterns, i + 1, ns, group_generate(patterns[i], ns, filtered))

\* filtered_nodes_of that adds DIRECT to every empty list, provider or not.
filtered_nodes_of_ignoring_providers(group, ns) ==
    LET filtered_nodes == expand_patterns(group.proxies, 1, ns, <<>>) IN
    IF filtered_nodes = <<>> THEN <<"DIRECT">> ELSE filtered_nodes

\* The body of the loop that fills filtered_nodes_map, for one group.
filtered_nodes_of(group, ns) ==
    LET filtered_nodes == expand_patterns(group.proxies, 1, ns, <<>>) IN
    IF filtered_nodes = <<>> /\ group.using_provider = <<>>
    THEN <<"DIRECT">>
    ELSE filtered_nodes

\* filtered_nodes_map: a HashMap, the last insert of a name wins.
RECURSIVE build_filtered_nodes_map(_, _, _, _)
build_filtered_nodes_map(groups, i, ns, m) ==
    IF i > Len(groups) THEN m
    ELSE build_filtered_nodes_map(groups, i + 1, ns,
            map_insert(m, groups[i].name, filtered_nodes_of(groups[i], ns)))

str_seq(q) == YSeq([i \in DOMAIN q |-> YStr(q[i])])

\* convert_proxy_groups followed by serde_yaml::to_value: one mapping per
\* config, in order, with the members the map holds for its name.
group_yaml(group, filtered_nodes_map) ==
    YMap(<< <<"name", YStr(group.name)>>,
            <<"type", YStr(group.group_type)>>,
            <<"proxies", str_seq(unwrap_or(map_get(filtered_nodes_map, group.name), <<>>))>> >>
         \o (IF group.using_provider = <<>> THEN <<>>
             ELSE << <<"use", str_seq(group.using_provider)>> >>))

convert_proxy_groups(groups, filtered_nodes_map) ==
    [i \in DOMAIN groups |-> group_yaml(groups[i], filtered_nodes_map)]

\* The name a list element is matched on: it must be a mapping whose "name"
\* is a string.
group_name_of(elem) ==
    IF is_mapping(elem) /\ map_get(elem.m, "name") # None
       /\ map_get(elem.m, "name")[1].t = "str"
    THEN Some(map_get(elem.m, "name")[1].s)
    ELSE None

\* merge_group that never looks for a group of the same name.
merge_group_always_push(original_groups, group) == Append(original_groups, group)

\* Merge of one generated group into original_groups: it replaces the first
\* element of that name, or is pushed.
merge_group(original_groups, group) ==
    LET name == group_name_of(group)
        hits == {i \in DOMAIN original_groups :
                    /\ group_name_of(original_groups[i]) # None
                    /\ group_name_of(original_groups[i]) = name}
    IN  IF hits # {}
        THEN [original_groups EXCEPT ![CHOOSE i \in hits : \A j \in hits : i <= j] = group]
        ELSE Append(original_groups, group)

RECURSIVE merge_groups(_, _, _)
merge_groups(original_groups, clash_proxy_groups, i) ==
    IF i > Len(clash_proxy_groups) THEN original_groups
    ELSE merge_groups(merge_group(original_groups, clash_proxy_groups[i]),
                      clash_proxy_groups, i + 1)

(***************************************************************************)
(* proxy_to_clash_yaml: the new value of yaml_node.                        *)
(***************************************************************************)
proxies_key(e) == IF e.clash_new_field_name THEN "proxies" ELSE "Proxy"

groups_key(e) == IF e.clash_new_field_name THEN "proxy-groups" ELSE "Proxy Group"

\* proxy_to_clash_yaml that writes the node list into the template instead of
\* replacing the document.
proxy_to_clash_yaml_keeps_template(ns, yaml, groups, clashr, e) ==
    LET acc == proxy_loop(ns, 1, [remarks_list |-> <<>>, proxies_json |-> <<>>], clashr, e)
        proxies_yaml_value == YSeq(acc.proxies_json)
        with_proxies == yaml_insert(yaml, proxies_key(e), proxies_yaml_value)
        existing == yaml_get(yaml, groups_key(e))
        original_groups == IF existing # None /\ existing[1].t = "seq"
                           THEN existing[1].q ELSE <<>>
        filtered_nodes_map == build_filtered_nodes_map(groups, 1, ns, <<>>)
        clash_proxy_groups == convert_proxy_groups(groups, filtered_nodes_map)
        merged == merge_groups(original_groups, clash_proxy_groups, 1)
    IN  IF e.nodelist
        THEN yaml_insert(yaml, "proxies", proxies_yaml_value)
        ELSE IF groups = <<>> THEN with_proxies
        ELSE yaml_insert(with_proxies, groups_key(e), YSeq(merged))

proxy_to_clash_yaml(ns, yaml, groups, clashr, e) ==
    LET acc == proxy_loop(ns, 1, [remarks_list |-> <<>>, proxies_json |-> <<>>], clashr, e)
        proxies_yaml_value == YSeq(acc.proxies_json)
        with_proxies == yaml_insert(yaml, proxies_key(e), proxies_yaml_value)
        existing == yaml_get(yaml, groups_key(e))
        original_groups == IF existing # None /\ existing[1].t = "seq"
                           THEN existing[1].q ELSE <<>>
        filtered_nodes_map == build_filtered_nodes_map(groups, 1, ns, <<>>)
        clash_proxy_groups == convert_proxy_groups(groups, filtered_nodes_map)
        merged == merge_groups(original_groups, clash_proxy_groups, 1)
    IN  IF e.nodelist
        THEN YMap(<< <<"proxies", proxies_yaml_value>> >>)
        ELSE IF groups = <<>> THEN with_proxies
        ELSE yaml_insert(with_proxies, groups_key(e), YSeq(merged))

(***************************************************************************)
(* Inputs.  ExtraSettings is the record ext.                               *)
(***************************************************************************)
Proxy(t, remark, cipher, protocol, obfs, version) ==
    [proxy_type |-> t, remark |-> remark, encrypt_method |-> cipher,
     protocol |-> protocol, obfs |-> obfs, snell_version |-> version]

SsrPool ==
    {Proxy("ShadowsocksR", "a", c, p, o, 0) :
        c \in {Some("aes-256-cfb"), Some("none"), None},
        p \in {Some("auth_aes128_sha1"), Some("auth_chain_c")},
        o \in {Some("tls1.2_ticket_auth"), Some("tls_simple")}}
    \cup {Proxy("ShadowsocksR", "a", Some("aes-256-cfb"), None, Some("plain"), 0),
          Proxy("ShadowsocksR", "a", Some("aes-256-cfb"), Some("origin"), None, 0)}

ProxyPool ==
    SsrPool
    \cup {Proxy("Shadowsocks", "a", c, None, None, 0) :
            c \in {Some("chacha20"), Some("aes-256-gcm"), None}}
    \cup {Proxy("Snell", "a", Some("aes-128-gcm"), None, None, v) : v \in {3, 4}}
    \cup {Proxy(t, r, None, None, None, 0) :
            t \in {"VMess", "HTTPS", "Unknown"}, r \in {"a", "b"}}

SeqsUpTo(S, n) == UNION {[1..k -> S] : k \in 0..n}

Ext(append, deprecated, list, new_name, rule_gen, script, prefix) ==
    [append_proxy_type |-> append, filter_deprecated |-> deprecated,
     nodelist |-> list, clash_new_field_name |-> new_name,
     enable_rule_generator |-> rule_gen, clash_script |-> script,
     managed_config_prefix |-> prefix, overwrite_original_rules |-> FALSE]

Group(name, patterns, providers) ==
    [name |-> name, group_type |-> "select", proxies |-> patterns,
     using_provider |-> providers]

GroupPool ==
    {Group(n, ps, us) :
        n \in {"G1", "G2"},
        ps \in {<<>>, <<".*">>, <<"zzz">>, <<"a", "[]REJECT">>, <<"[]DIRECT">>},
        us \in {<<>>, <<"prov">>}}

NamedGroupPool == {Group(n, <<".*">>, <<>>) : n \in {"G1", "G2", "G3"}}

\* The group configs are keyed by name (filtered_nodes_map): their names are
\* pairwise distinct.
DistinctNames(groups) ==
    \A i, j \in DOMAIN groups : groups[i].name = groups[j].name => i = j

TemplateGroup(name) ==
    YMap(<< <<"name", YStr(name)>>, <<"type", YStr("url-test")>>,
            <<"proxies", str_seq(<<"old">>)>> >>)

\* Elements a template can hold in its group list: named groups, a scalar, a
\* mapping without a name, a mapping whose name is no string.
TemplateGroupPool ==
    {TemplateGroup(n) : n \in {"G1", "G2", "T"}}
    \cup {YStr("G1"),
          YMap(<< <<"type", YStr("select")>> >>),
          YMap(<< <<"name", YNull>>, <<"type", YStr("select")>> >>)}

Idle == [kind |-> "none"]

\* No request is being handled.
WebIdle ==
    /\ settings = Idle
    /\ query = Idle
    /\ world = Idle
    /\ calls = <<>>
    /\ response = Idle

(***************************************************************************)
(* proxy_to_clash_yaml called on its own (as the unit tests do).           *)
(***************************************************************************)
\* The filter slice: many proxies, an empty mapping, no groups.
InitFilter ==
    /\ nodes \in SeqsUpTo(ProxyPool, MaxNodes)
    /\ yaml_node = YMap(<<>>)
    /\ extra_proxy_group = <<>>
    /\ clash_r \in BOOLEAN
    /\ \E append, deprecated \in BOOLEAN :
          ext = Ext(append, deprecated, FALSE, TRUE, FALSE, FALSE, "")

\* The resolver slice: a few proxies, many group configs.
InitResolve ==
    /\ nodes \in {<<>>,
                  <<Proxy("VMess", "a", None, None, None, 0),
                    Proxy("VMess", "b", None, None, None, 0)>>,
                  <<Proxy("HTTPS", "c", None, None, None, 0),
                    Proxy("VMess", "a", None, None, None, 0)>>}
    /\ yaml_node = YMap(<<>>)
    /\ extra_proxy_group \in {g \in SeqsUpTo(GroupPool, MaxGroups) : DistinctNames(g)}
    /\ clash_r = FALSE
    /\ \E list, new_name \in BOOLEAN :
          ext = Ext(FALSE, FALSE, list, new_name, FALSE, FALSE, "")

\* The merge slice: many template group lists, under either key.
InitMerge ==
    /\ nodes = <<Proxy("VMess", "a", None, None, None, 0)>>
    /\ yaml_node \in
          {YMap(<< <<"port", YStr("7890")>>, <<k, YSeq(tg)>> >>) :
              k \in {"proxy-groups", "Proxy Group"},
              tg \in SeqsUpTo(TemplateGroupPool, MaxTemplateGroups)}
          \cup {YMap(<< <<"proxy-groups", YNull>>, <<"Proxy Group", YNull>> >>),
                YStr("not a mapping")}
    /\ extra_proxy_group \in {g \in SeqsUpTo(NamedGroupPool, MaxGroups) : DistinctNames(g)}
    /\ clash_r = FALSE
    /\ \E new_name \in BOOLEAN :
          ext = Ext(FALSE, FALSE, FALSE, new_name, FALSE, FALSE, "")

InitYaml ==
    /\ pc = "yaml"
    /\ base_conf = Idle
    /\ ruleset_content_array = <<>>
    /\ output = Idle
    /\ script_parts = Idle
    /\ (InitFilter \/ InitResolve \/ InitMerge)
    /\ WebIdle

\* The call: yaml_node is modified in place, the other arguments are not.
ProxyToClashYaml ==
    /\ pc = "yaml"
    /\ yaml_node' = proxy_to_clash_yaml(nodes, yaml_node, extra_proxy_group, clash_r, ext)
    /\ pc' = "yaml_done"
    /\ UNCHANGED <<nodes, base_conf, ruleset_content_array, extra_proxy_group,
                   clash_r, ext, output, script_parts>>
    /\ UNCHANGED web_vars

NextYaml == ProxyToClashYaml

SpecYaml == InitYaml /\ [][NextYaml]_vars

(***************************************************************************)
(* Reading the result.                                                     *)
(***************************************************************************)
\* The sequence a document holds under key k (empty when it holds none).
seq_at(y, k) ==
    IF yaml_get(y, k) # None /\ yaml_get(y, k)[1].t = "seq" THEN yaml_get(y, k)[1].q
    ELSE <<>>

\* The string a serialized mapping holds under key k, as an Option.
str_at(entry, k) ==
    IF map_get(entry.m, k) # None /\ map_get(entry.m, k)[1].t = "str"
    THEN Some(map_get(entry.m, k)[1].s)
    ELSE None

\* The key the proxies are emitted under.
emitted_key(e) == IF e.nodelist \/ e.clash_new_field_name THEN "proxies" ELSE "Proxy"

emitted_of(y, e) == seq_at(y, emitted_key(e))

emitted_yaml == emitted_of(yaml_node, ext)

IsSsrEntry(entry) == str_at(entry, "type") = Some("ssr")

IsSsrNode(n) == n.proxy_type = "ShadowsocksR"

entry_ssr_fields(q) ==
    [i \in DOMAIN q |-> <<str_at(q[i], "cipher"), str_at(q[i], "protocol"), str_at(q[i], "obfs")>>]

node_ssr_fields(q) ==
    [i \in DOMAIN q |-> <<q[i].encrypt_method, q[i].protocol, q[i].obfs>>]

in_catalog(o, catalog) == o # None /\ o[1] \in catalog

\* The condition of the claim for an SSR proxy to be emitted.
SsrSupported(n) ==
    /\ in_catalog(n.protocol, CLASHR_PROTOCOLS)
    /\ in_catalog(n.obfs, CLASHR_OBFS)
    /\ (clash_r \/ in_catalog(n.encrypt_method, CLASH_SSR_CIPHERS))

SsrKeptNode(n) == IsSsrNode(n) /\ SsrSupported(n)

\* C1: with filter_deprecated on, the emitted ShadowsocksR entries are exactly
\* the input ShadowsocksR proxies whose protocol is in CLASHR_PROTOCOLS, whose
\* obfs is in CLASHR_OBFS and whose cipher is in CLASH_SSR_CIPHERS unless
\* clash_r is on (same proxies, same order, none twice).
C1_SsrEmittedIffSupported ==
    (pc = "yaml_done" /\ ext.filter_deprecated) =>
        entry_ssr_fields(SelectSeq(emitted_yaml, IsSsrEntry))
            = node_ssr_fields(SelectSeq(nodes, SsrKeptNode))

\* Witness of C1: under ClashR an SSR proxy with a cipher outside
\* CLASH_SSR_CIPHERS is emitted while an SSR proxy with a bad protocol is not.
C1_Witness ==
    /\ pc = "yaml_done" /\ ext.filter_deprecated /\ clash_r
    /\ Len(SelectSeq(nodes, IsSsrNode)) = 2
    /\ entry_ssr_fields(SelectSeq(emitted_yaml, IsSsrEntry))
          = << <<Some("none"), Some("auth_aes128_sha1"), Some("tls1.2_ticket_auth")>> >>

IsChacha20SsEntry(entry) ==
    str_at(entry, "type") = Some("ss") /\ str_at(entry, "cipher") = Some("chacha20")

IsChacha20SsNode(n) ==
    n.proxy_type = "Shadowsocks" /\ n.encrypt_method = Some("chacha20")

\* C2: with filter_deprecated on, whatever clash_r and the input list, no
\* emitted proxy is a Shadowsocks proxy with cipher chacha20.
C2_NoChacha20Ss ==
    (pc = "yaml_done" /\ ext.filter_deprecated) =>
        \A i \in DOMAIN emitted_yaml : ~IsChacha20SsEntry(emitted_yaml[i])

\* Witness of C2: a chacha20 Shadowsocks proxy was in the input, next to a
\* proxy that is emitted.
C2_Witness ==
    /\ pc = "yaml_done" /\ ext.filter_deprecated
    /\ Len(nodes) = 2 /\ IsChacha20SsNode(nodes[1])
    /\ Len(emitted_yaml) = 1

(***************************************************************************)
(* build_clash_script_parts.  A RulesetContent is the record [group,       *)
(* rule_type, rule_path, rule_path_typed, update_interval, content], where *)
(* content is what get_rule_content() yields.                              *)
(***************************************************************************)
DefaultInterval == 86400

AsciiFrom44 == ",-./0123456789:;"

AsciiFrom65 == "ABCDEFGHIJKLMNOPQRSTUVWXYZ"

AsciiFrom97 == "abcdefghijklmnopqrstuvwxyz"

\* The byte of a character of a path (letters, digits, and , - . / : ; _).
ascii(c) ==
    IF find(AsciiFrom97, c) # 0 THEN find(AsciiFrom97, c) + 96
    ELSE IF find(AsciiFrom65, c) # 0 THEN find(AsciiFrom65, c) + 64
    ELSE IF find(AsciiFrom44, c) # 0 THEN find(AsciiFrom44, c) + 43
    ELSE 95

Base64UrlAlphabet == "ABCDEFGHIJKLMNOPQRSTUVWXYZabcdefghijklmnopqrstuvwxyz0123456789-_"

sextet(v) == Char(Base64UrlAlphabet, v + 1)

\* url_safe_base64_encode: base64 with - and _ for + and /, without padding.
RECURSIVE url_safe_base64_encode(_)
url_safe_base64_encode(s) ==
    IF Len(s) = 0 THEN ""
    ELSE LET b1 == ascii(Char(s, 1))
             b2 == IF Len(s) >= 2 THEN ascii(Char(s, 2)) ELSE 0
             b3 == IF Len(s) >= 3 THEN ascii(Char(s, 3)) ELSE 0
             c1 == sextet(b1 \div 4)
             c2 == sextet((b1 % 4) * 16 + (b2 \div 16))
             c3 == sextet((b2 % 16) * 4 + (b3 \div 64))
             c4 == sextet(b3 % 64)
         IN  IF Len(s) = 1 THEN c1 \o c2
             ELSE IF Len(s) = 2 THEN c1 \o c2 \o c3
             ELSE c1 \o c2 \o c3 \o c4 \o url_safe_base64_encode(SubSeq(s, 4, Len(s)))

\* One entry of a Clash payload: "  - 'x'" gives x.
payload_item(line) ==
    LET t == trim(line)
        u == IF starts_with(t, "- ") THEN trim(SubSeq(t, 3, Len(t))) ELSE t
    IN  IF Len(u) >= 2 /\ starts_with(u, "'") /\ ends_with(u, "'")
        THEN SubSeq(u, 2, Len(u) - 1)
        ELSE u

\* The Surge-style line of a payload entry of a domain or ipcidr ruleset.
surge_line(item) ==
    IF item = "" THEN ""
    ELSE IF find(item, "/") # 0 THEN "IP-CIDR," \o item
    ELSE IF starts_with(item, "+.") THEN "DOMAIN-SUFFIX," \o SubSeq(item, 3, Len(item))
    ELSE "DOMAIN," \o item

RECURSIVE convert_payload(_, _, _)
convert_payload(ls, i, rule_type) ==
    IF i > Len(ls) THEN ""
    ELSE (IF rule_type = "ClashClassical" THEN payload_item(ls[i])
          ELSE surge_line(payload_item(ls[i])))
         \o "\n" \o convert_payload(ls, i + 1, rule_type)

\* convert_ruleset(content, rule_type): Surge rules are returned as they are, a
\* Clash payload becomes one Surge-style line per entry.
convert_ruleset(content, rule_type) ==
    IF rule_type # "Surge" /\ starts_with(content, "payload:\n")
    THEN convert_payload(lines(content), 2, rule_type)
    ELSE content

is_comment_or_blank(line) ==
    \/ line = ""
    \/ starts_with(line, "#")
    \/ starts_with(line, ";")
    \/ starts_with(line, "//")

\* The rule types of the lines that count: trimmed, neither blank nor comment,
\* the text before the first comma, trimmed.
line_rule_types(converted) ==
    {trim(split(trim(l), ",")[1]) :
        l \in {x \in Range(lines(converted)) : ~is_comment_or_blank(trim(x))}}

has_domain_of(converted) ==
    line_rule_types(converted) \cap {"DOMAIN", "DOMAIN-SUFFIX", "DOMAIN-KEYWORD"} # {}

has_ipcidr_of(converted) == "IP-CIDR" \in line_rule_types(converted)

\* rule_path.rsplit('/').next(), with a final ".list" stripped.
provider_base_name_of(rule_path) ==
    LET last == SubSeq(rule_path, rfind(rule_path, "/") + 1, Len(rule_path)) IN
    IF ends_with(last, ".list") THEN SubSeq(last, 1, Len(last) - 5) ELSE last

ScriptRuleProvider(name, behavior, request_type, group, label, typed_path, interval) ==
    [name |-> name, behavior |-> behavior, request_type |-> request_type,
     group |-> group, label |-> label, typed_path |-> typed_path,
     interval |-> interval]

ScriptRuleLayout(classical, domain, ipcidr) ==
    [classical |-> classical, domain |-> domain, ipcidr |-> ipcidr]

\* The locals of build_clash_script_parts before the loop.
script_locals_init ==
    [providers |-> <<>>, layouts |-> <<>>, geoips |-> <<>>, final_group |-> "DIRECT"]

\* inline_step where a final group, once set, is kept.
inline_step_first_final(acc, ruleset, content) ==
    LET inline == trim(SubSeq(content, 3, Len(content))) IN
    IF starts_with(inline, "GEOIP,")
    THEN [acc EXCEPT !.geoips = Append(@, <<trim(split(inline, ",")[2]), ruleset.group>>)]
    ELSE IF (inline = "FINAL" \/ inline = "MATCH") /\ acc.final_group = "DIRECT"
    THEN [acc EXCEPT !.final_group = ruleset.group]
    ELSE acc

\* The "[]" branch of the loop body.
inline_step(acc, ruleset, content) ==
    LET inline == trim(SubSeq(content, 3, Len(content))) IN
    IF starts_with(inline, "GEOIP,")
    THEN [acc EXCEPT !.geoips = Append(@, <<trim(split(inline, ",")[2]), ruleset.group>>)]
    ELSE IF inline = "FINAL" \/ inline = "MATCH"
    THEN [acc EXCEPT !.final_group = ruleset.group]
    ELSE acc

\* provider_step without the MOO/Download override.
provider_step_no_override(acc, ruleset, converted) ==
    LET has_domain == has_domain_of(converted)
        has_ipcidr == has_ipcidr_of(converted)
        provider_base_name == provider_base_name_of(ruleset.rule_path)
        typed_path == ruleset.rule_path_typed
        interval == IF ruleset.update_interval > 0 THEN ruleset.update_interval
                    ELSE DefaultInterval
        classical == ScriptRuleProvider(provider_base_name, "classical", 6,
                                        ruleset.group, "rule", typed_path, interval)
        domain == ScriptRuleProvider(provider_base_name \o "_domain", "domain", 3,
                                     ruleset.group, "DOMAIN rule", typed_path, interval)
        ipcidr == ScriptRuleProvider(provider_base_name \o "_ipcidr", "ipcidr", 4,
                                     ruleset.group, "IP rule", typed_path, interval)
        emit_ipcidr == has_ipcidr /\ provider_base_name # "Apple"
    IN  IF ~has_domain /\ ~has_ipcidr
        THEN [acc EXCEPT !.providers = Append(@, classical),
                         !.layouts = Append(@, ScriptRuleLayout(Some(classical), None, None))]
        ELSE [acc EXCEPT
                !.providers = @ \o (IF has_domain THEN <<domain>> ELSE <<>>)
                                \o (IF emit_ipcidr THEN <<ipcidr>> ELSE <<>>),
                !.layouts = Append(@, ScriptRuleLayout(None,
                                        IF has_domain THEN Some(domain) ELSE None,
                                        IF emit_ipcidr THEN Some(ipcidr) ELSE None))]

\* provider_step without the Apple exception.
provider_step_apple_ipcidr(acc, ruleset, converted) ==
    LET has_domain == has_domain_of(converted)
        has_ipcidr == has_ipcidr_of(converted)
        provider_base_name == provider_base_name_of(ruleset.rule_path)
        typed_path == ruleset.rule_path_typed
        interval == IF ruleset.update_interval > 0 THEN ruleset.update_interval
                    ELSE DefaultInterval
        force_classical == provider_base_name = "MOO" \/ provider_base_name = "Download"
        classical == ScriptRuleProvider(provider_base_name, "classical", 6,
                                        ruleset.group, "rule", typed_path, interval)
        domain == ScriptRuleProvider(provider_base_name \o "_domain", "domain", 3,
                                     ruleset.group, "DOMAIN rule", typed_path, interval)
        ipcidr == ScriptRuleProvider(provider_base_name \o "_ipcidr", "ipcidr", 4,
                                     ruleset.group, "IP rule", typed_path, interval)
    IN  IF force_classical \/ (~has_domain /\ ~has_ipcidr)
        THEN [acc EXCEPT !.providers = Append(@, classical),
                         !.layouts = Append(@, ScriptRuleLayout(Some(classical), None, None))]
        ELSE [acc EXCEPT
                !.providers = @ \o (IF has_domain THEN <<domain>> ELSE <<>>)
                                \o (IF has_ipcidr THEN <<ipcidr>> ELSE <<>>),
                !.layouts = Append(@, ScriptRuleLayout(None,
                                        IF has_domain THEN Some(domain) ELSE None,
                                        IF has_ipcidr THEN Some(ipcidr) ELSE None))]

\* The provider branch of the loop body, for a ruleset that converts to rules.
provider_step(acc, ruleset, converted) ==
    LET has_domain == has_domain_of(converted)
        has_ipcidr == has_ipcidr_of(converted)
        provider_base_name == provider_base_name_of(ruleset.rule_path)
        typed_path == ruleset.rule_path_typed
        interval == IF ruleset.update_interval > 0 THEN ruleset.update_interval
                    ELSE DefaultInterval
        force_classical == provider_base_name = "MOO" \/ provider_base_name = "Download"
        classical == ScriptRuleProvider(provider_base_name, "classical", 6,
                                        ruleset.group, "rule", typed_path, interval)
        domain == ScriptRuleProvider(provider_base_name \o "_domain", "domain", 3,
                                     ruleset.group, "DOMAIN rule", typed_path, interval)
        ipcidr == ScriptRuleProvider(provider_base_name \o "_ipcidr", "ipcidr", 4,
                                     ruleset.group, "IP rule", typed_path, interval)
        emit_ipcidr == has_ipcidr /\ provider_base_name # "Apple"
    IN  IF force_classical \/ (~has_domain /\ ~has_ipcidr)
        THEN [acc EXCEPT !.providers = Append(@, classical),
                         !.layouts = Append(@, ScriptRuleLayout(Some(classical), None, None))]
        ELSE [acc EXCEPT
                !.providers = @ \o (IF has_domain THEN <<domain>> ELSE <<>>)
                                \o (IF emit_ipcidr THEN <<ipcidr>> ELSE <<>>),
                !.layouts = Append(@, ScriptRuleLayout(None,
                                        IF has_domain THEN Some(domain) ELSE None,
                                        IF emit_ipcidr THEN Some(ipcidr) ELSE None))]

\* One iteration of the loop over ruleset_content_array.
ruleset_step(acc, ruleset) ==
    LET content == ruleset.content IN
    IF content = "" THEN acc
    ELSE IF starts_with(content, "[]") THEN inline_step(acc, ruleset, content)
    ELSE LET converted == convert_ruleset(content, ruleset.rule_type) IN
         IF trim(converted) = "" THEN acc
         ELSE provider_step(acc, ruleset, converted)

YNum(n) == [t |-> "num", n |-> n]

provider_url(managed_config_prefix, p) ==
    managed_config_prefix \o "/getruleset?type=" \o ToString(p.request_type)
        \o "&url=" \o url_safe_base64_encode(p.typed_path)

\* The entry of one provider in the rule-providers mapping.
provider_item(managed_config_prefix, p) ==
    YMap(<< <<"type", YStr("http")>>,
            <<"behavior", YStr(p.behavior)>>,
            <<"url", YStr(provider_url(managed_config_prefix, p))>>,
            <<"path", YStr("./providers/rule-provider_" \o p.name \o ".yaml")>>,
            <<"interval", YNum(p.interval)>> >>)

RECURSIVE build_providers_map(_, _, _, _)
build_providers_map(providers, i, managed_config_prefix, m) ==
    IF i > Len(providers) THEN m
    ELSE build_providers_map(providers, i + 1, managed_config_prefix,
            map_insert(m, providers[i].name, provider_item(managed_config_prefix, providers[i])))

match_block(p) ==
    "  if ctx.rule_providers[\"" \o p.name \o "\"].match(md):\n    ctx.log('[Script] matched "
        \o p.group \o " " \o p.label \o "')\n    return \"" \o p.group \o "\"\n\n"

layout_code(layout) ==
    IF layout.classical # None THEN match_block(layout.classical[1])
    ELSE (IF layout.domain # None THEN match_block(layout.domain[1]) ELSE "\n\n")
         \o (IF layout.ipcidr # None THEN match_block(layout.ipcidr[1]) ELSE "\n\n")

RECURSIVE layouts_code(_, _)
layouts_code(layouts, i) ==
    IF i > Len(layouts) THEN ""
    ELSE layout_code(layouts[i]) \o layouts_code(layouts, i + 1)

RECURSIVE geoips_code(_, _)
geoips_code(geoips, i) ==
    IF i > Len(geoips) THEN ""
    ELSE (IF i > 1 THEN ", " ELSE "")
         \o "\"" \o geoips[i][1] \o "\": \"" \o geoips[i][2] \o "\""
         \o geoips_code(geoips, i + 1)

script_code_of(acc) ==
    "def main(ctx, md):\n  host = md[\"host\"]\n\n"
        \o layouts_code(acc.layouts, 1)
        \o "\n"
        \o "  geoips = {"
        \o (IF acc.geoips # <<>> THEN " " \o geoips_code(acc.geoips, 1) \o " " ELSE "")
        \o "}\n"
        \o "  ip = md[\"dst_ip\"]\n  if ip == \"\":\n    ip = ctx.resolve_ip(host)\n    if ip == \"\":\n      ctx.log('[Script] dns lookup error use "
        \o acc.final_group
        \o "')\n      return \""
        \o acc.final_group
        \o "\"\n  for key in geoips:\n    if ctx.geoip(ip) == key:\n      return geoips[key]\n  return \""
        \o acc.final_group
        \o "\""

RECURSIVE script_loop(_, _, _)
script_loop(rulesets, i, acc) ==
    IF i > Len(rulesets) THEN acc
    ELSE script_loop(rulesets, i + 1, ruleset_step(acc, rulesets[i]))

\* The pair the function returns.
script_result(acc, managed_config_prefix) ==
    [rule_providers |-> build_providers_map(acc.providers, 1, managed_config_prefix, <<>>),
     script_code |-> script_code_of(acc)]

build_clash_script_parts(rulesets, managed_config_prefix) ==
    script_result(script_loop(rulesets, 1, script_locals_init), managed_config_prefix)

Ruleset(group, rule_type, rule_path, rule_path_typed, update_interval, content) ==
    [group |-> group, rule_type |-> rule_type, rule_path |-> rule_path,
     rule_path_typed |-> rule_path_typed, update_interval |-> update_interval,
     content |-> content]

Inline(group, content) == Ruleset(group, "Surge", "", "", 0, content)

\* Rulesets of every kind the loop tells apart: empty, blank, inline
\* directives, classical, domain, ipcidr and mixed content, the special base
\* names, Clash payloads, and paths that end in the same file name.
RulesetPool ==
    {Ruleset("Proxy", "Surge", "lists/MOO.list", "lists/MOO.list", 0, "DOMAIN,example.com\n"),
     Ruleset("Proxy", "ClashDomain", "https://h/MOO.list", "clash-domain:https://h/MOO.list",
             0, "payload:\n  - '+.moo.com'\n  - '10.0.0.0/8'\n"),
     Ruleset("Proxy", "Surge", "Download", "Download", 3600, "IP-CIDR,1.0.0.0/8\nDOMAIN,d.com\n"),
     Ruleset("Apple", "Surge", "a/Apple.list", "a/Apple.list", 3600,
             "DOMAIN-SUFFIX,apple.com\nIP-CIDR,17.0.0.0/8\n"),
     Ruleset("Apple", "Surge", "b/Apple.list", "b/Apple.list", 0, "IP-CIDR,17.0.0.0/8\n"),
     Ruleset("Proxy", "Surge", "x/Foo.list", "x/Foo.list", 0,
             "# c\n  DOMAIN-KEYWORD , foo\n; d\n// e\nPROCESS-NAME,p\n"),
     Ruleset("Proxy", "Surge", "x/Foo.list", "x/Foo.list", 0, "IP-CIDR,1.0.0.0/8\nIP-CIDR6,::/0\n"),
     Ruleset("Media", "Surge", "x/Foo.list", "x/Foo.list", 0, "DOMAIN,a.com\nIP-CIDR,1.0.0.0/8\n"),
     Ruleset("Proxy", "Surge", "y/Foo.list", "y/Foo.list", 0, "PROCESS-NAME,p\n#DOMAIN,c.com\n"),
     Ruleset("Direct", "Surge", "z/Foo.list", "surge:z/Foo.list", 0, "USER-AGENT,x\n"),
     Ruleset("Direct", "Surge", "q/Foo_domain.list", "q/Foo_domain.list", 0, "GEOIP,CN\n"),
     Ruleset("Proxy", "ClashIpCidr", "c/Net.yaml", "clash-ipcidr:c/Net.yaml", 0,
             "payload:\n  - '10.0.0.0/8'\n"),
     Ruleset("Proxy", "Surge", "z/Bar.list", "z/Bar.list", 0, " \n"),
     Ruleset("Proxy", "Surge", "z/Bar.list", "z/Bar.list", 0, ""),
     Inline("Domestic", "[]GEOIP,CN"),
     Inline("Asia", "[] GEOIP, JP ,no-resolve"),
     Inline("Fallback", "[]FINAL"),
     Inline("Proxy", "[] MATCH "),
     Inline("Ads", "[]DOMAIN,ads.com"),
     Inline("Late", "[]FINAL,dns-failed")}

PrefixPool == {"https://x/y", "http://h"}

(***************************************************************************)
(* build_clash_script_parts called on its own, one ruleset at a time.      *)
(* script_parts holds the loop index, the locals and, once the function    *)
(* has returned, its result.                                               *)
(***************************************************************************)
InitScript ==
    /\ pc = "script_loop"
    /\ ruleset_content_array \in SeqsUpTo(RulesetPool, MaxRulesets)
    /\ \E prefix \in PrefixPool : ext = Ext(FALSE, FALSE, FALSE, TRUE, TRUE, TRUE, prefix)
    /\ script_parts = [idx |-> 1, locals |-> script_locals_init, result |-> None]
    /\ nodes = <<>>
    /\ yaml_node = YNull
    /\ base_conf = Idle
    /\ extra_proxy_group = <<>>
    /\ clash_r = FALSE
    /\ output = Idle
    /\ WebIdle

\* One iteration of the loop over the rulesets.
ScriptRuleset ==
    /\ pc = "script_loop"
    /\ script_parts.idx <= Len(ruleset_content_array)
    /\ script_parts' =
          [script_parts EXCEPT
              !.idx = @ + 1,
              !.locals = ruleset_step(@, ruleset_content_array[script_parts.idx])]
    /\ UNCHANGED <<pc, nodes, yaml_node, base_conf, ruleset_content_array,
                   extra_proxy_group, clash_r, ext, output>>
    /\ UNCHANGED web_vars

\* After the loop: the providers mapping and the script are built and returned.
ScriptEmit ==
    /\ pc = "script_loop"
    /\ script_parts.idx > Len(ruleset_content_array)
    /\ script_parts' =
          [script_parts EXCEPT
              !.result = Some(script_result(script_parts.locals, ext.managed_config_prefix))]
    /\ pc' = "script_done"
    /\ UNCHANGED <<nodes, yaml_node, base_conf, ruleset_content_array,
                   extra_proxy_group, clash_r, ext, output>>
    /\ UNCHANGED web_vars

NextScript == ScriptRuleset \/ ScriptEmit

SpecScript == InitScript /\ [][NextScript]_vars

(***************************************************************************)
(* proxy_to_clash.  The base template text is the record [valid, doc]:     *)
(* whether serde_yaml::from_str accepts it and the document it reads.  The *)
(* returned String is EmptyString, or the text of a YAML document followed *)
(* by an optional tail (the inline rules text).                            *)
(***************************************************************************)
Template(doc) == [valid |-> TRUE, doc |-> doc]

InvalidTemplate == [valid |-> FALSE, doc |-> YNull]

EmptyString == [kind |-> "empty", doc |-> YNull, tail |-> None]

\* serde_yaml::to_string(&yaml_node)
to_string(y) == [kind |-> "yaml", doc |-> y, tail |-> None]

\* ruleset_to_clash_str: the text it returns is kept as the call that made it.
ruleset_to_clash_str(y, rulesets, overwrite_original_rules, new_field_name) ==
    [yaml |-> y, rulesets |-> rulesets, overwrite |-> overwrite_original_rules,
     new_field_name |-> new_field_name]

\* set_script_mode that writes the new token under both naming conventions.
set_script_mode_one_token(y, e) ==
    IF yaml_get(y, "mode") # None THEN yaml_insert(y, "mode", YStr("script")) ELSE y

\* The "mode" key is overwritten only when the document has one.
set_script_mode(y, e) ==
    IF yaml_get(y, "mode") # None
    THEN yaml_insert(y, "mode",
                     YStr(IF e.clash_new_field_name THEN "script" ELSE "Script"))
    ELSE y

\* insert_script_parts that does not look at managed_config_prefix.
insert_script_parts_always(y, rulesets, e) ==
    LET parts == build_clash_script_parts(rulesets, e.managed_config_prefix) IN
    yaml_insert(
        yaml_insert(y, "rule-providers", YMap(parts.rule_providers)),
        "script", YMap(<< <<"code", YStr(parts.script_code)>> >>))

insert_script_parts(y, rulesets, e) ==
    IF e.managed_config_prefix # ""
    THEN LET parts == build_clash_script_parts(rulesets, e.managed_config_prefix) IN
         yaml_insert(
            yaml_insert(y, "rule-providers", YMap(parts.rule_providers)),
            "script", YMap(<< <<"code", YStr(parts.script_code)>> >>))
    ELSE y

\* A null-valued key is removed.
remove_if_null(y, k) ==
    IF is_mapping(y) /\ map_get(y.m, k) # None /\ is_null(map_get(y.m, k)[1])
    THEN YMap(map_remove(y.m, k))
    ELSE y

\* proxy_to_clash that goes on with an empty mapping when the template does
\* not parse.
proxy_to_clash_lenient(ns, base, rulesets, groups, clashr, e) ==
    LET parsed == IF ~base.valid \/ is_null(base.doc) THEN YMap(<<>>) ELSE base.doc
        converted == proxy_to_clash_yaml(ns, parsed, groups, clashr, e)
        stripped == remove_if_null(remove_if_null(converted, "rules"), "Rule")
    IN  IF e.nodelist THEN to_string(converted)
        ELSE IF ~e.enable_rule_generator THEN to_string(converted)
        ELSE IF e.clash_script
        THEN to_string(insert_script_parts(set_script_mode(converted, e), rulesets, e))
        ELSE [to_string(stripped) EXCEPT
                 !.tail = Some(ruleset_to_clash_str(stripped, rulesets,
                                 e.overwrite_original_rules, e.clash_new_field_name))]

proxy_to_clash(ns, base, rulesets, groups, clashr, e) ==
    IF ~base.valid THEN EmptyString
    ELSE LET parsed == IF is_null(base.doc) THEN YMap(<<>>) ELSE base.doc
             converted == proxy_to_clash_yaml(ns, parsed, groups, clashr, e)
             stripped == remove_if_null(remove_if_null(converted, "rules"), "Rule")
         IN  IF e.nodelist THEN to_string(converted)
             ELSE IF ~e.enable_rule_generator THEN to_string(converted)
             ELSE IF e.clash_script
             THEN to_string(insert_script_parts(set_script_mode(converted, e), rulesets, e))
             ELSE [to_string(stripped) EXCEPT
                      !.tail = Some(ruleset_to_clash_str(stripped, rulesets,
                                      e.overwrite_original_rules, e.clash_new_field_name))]

OldRules == YSeq(<<YStr("MATCH,DIRECT")>>)

\* Base templates: a text that does not parse, null, values that are no
\* mapping, and mappings with and without the keys the generator writes.
TemplatePool ==
    {InvalidTemplate,
     Template(YNull),
     Template(YStr("scalar")),
     Template(YSeq(<<YStr("item")>>)),
     Template(YMap(<<>>)),
     Template(YMap(<< <<"port", YStr("7890")>>, <<"mode", YStr("Rule")>>,
                      <<"dns", YMap(<< <<"enable", YStr("true")>> >>)>> >>)),
     Template(YMap(<< <<"port", YStr("7890")>>, <<"proxies", YNull>>,
                      <<"proxy-groups", YNull>>, <<"rules", YNull>>,
                      <<"dns", YMap(<<>>)>> >>)),
     Template(YMap(<< <<"mode", YStr("Rule")>>, <<"Proxy", YNull>>,
                      <<"Proxy Group", YSeq(<<TemplateGroup("T")>>)>>,
                      <<"Rule", YNull>>, <<"port", YStr("7890")>> >>)),
     Template(YMap(<< <<"proxy-groups", YSeq(<<TemplateGroup("G1"), TemplateGroup("T")>>)>>,
                      <<"rules", OldRules>>, <<"mode", YStr("global")>> >>)),
     Template(YMap(<< <<"rules", YNull>>, <<"Rule", YNull>>,
                      <<"script", YStr("old script")>>,
                      <<"rule-providers", YStr("old providers")>>,
                      <<"port", YStr("7890")>> >>))}

InitClash ==
    /\ pc = "clash"
    /\ nodes \in {<<>>,
                  <<Proxy("VMess", "a", None, None, None, 0),
                    Proxy("Shadowsocks", "a", Some("chacha20"), None, None, 0)>>,
                  <<Proxy("HTTPS", "c", None, None, None, 0)>>}
    /\ base_conf \in TemplatePool
    /\ ruleset_content_array \in
          {<<>>,
           <<Ruleset("Proxy", "Surge", "lists/MOO.list", "lists/MOO.list", 0,
                     "DOMAIN,example.com\n"),
             Inline("Domestic", "[]GEOIP,CN"), Inline("Fallback", "[]FINAL")>>,
           <<Ruleset("Media", "Surge", "x/Foo.list", "x/Foo.list", 0,
                     "DOMAIN,a.com\nIP-CIDR,1.0.0.0/8\n")>>}
    /\ extra_proxy_group \in
          {<<>>, <<Group("G1", <<".*">>, <<>>)>>,
           <<Group("G2", <<"zzz">>, <<>>), Group("G1", <<"a">>, <<"prov">>)>>}
    /\ clash_r = FALSE
    /\ \E list, new_name, rule_gen, script \in BOOLEAN, prefix \in {"", "https://x/y"} :
          ext = Ext(FALSE, TRUE, list, new_name, rule_gen, script, prefix)
    /\ yaml_node = YNull
    /\ output = Idle
    /\ script_parts = Idle
    /\ WebIdle

\* The call: the String it returns is kept in output.
ProxyToClash ==
    /\ pc = "clash"
    /\ output' = proxy_to_clash(nodes, base_conf, ruleset_content_array,
                                extra_proxy_group, clash_r, ext)
    /\ pc' = "clash_done"
    /\ UNCHANGED <<nodes, yaml_node, base_conf, ruleset_content_array,
                   extra_proxy_group, clash_r, ext, script_parts>>
    /\ UNCHANGED web_vars

Next == ProxyToClash

Spec == InitClash /\ [][Next]_vars

(***************************************************************************)
(* Properties of proxy_to_clash (specification Spec).                      *)
(***************************************************************************)
\* The document of node-list mode: the proxies that pass the filter, under
\* the one key "proxies".
NodelistDocument ==
    to_string(YMap(<< <<"proxies",
        YSeq(proxy_loop(nodes, 1, [remarks_list |-> <<>>, proxies_json |-> <<>>],
                        clash_r, ext).proxies_json)>> >>))

\* C3 as stated: with nodelist on, the result is the document {proxies: ...}
\* for every base template text, every group list and every ruleset list.
C3_NodelistForEveryTemplate ==
    (pc = "clash_done" /\ ext.nodelist) => output = NodelistDocument

\* C3, amended: with nodelist on and a base template that parses, the result
\* is exactly the document {proxies: <serialized filtered proxies>}, whatever
\* the template, the groups and the rulesets: it has no other key, no groups,
\* no rule providers, no script and no rules text.
C3_NodelistExact ==
    (pc = "clash_done" /\ ext.nodelist /\ base_conf.valid) =>
        /\ output = NodelistDocument
        /\ yaml_keys(output.doc) = {"proxies"}
        /\ output.tail = None

\* Witness of C3: node-list output made from a template that has groups and a
\* mode, with group configs, rulesets and script mode on, and a proxy emitted.
C3_Witness ==
    /\ pc = "clash_done" /\ ext.nodelist /\ base_conf.valid
    /\ "proxy-groups" \in yaml_keys(base_conf.doc)
    /\ extra_proxy_group # <<>> /\ ruleset_content_array # <<>>
    /\ ext.enable_rule_generator /\ ext.clash_script /\ ext.managed_config_prefix # ""
    /\ Len(seq_at(output.doc, "proxies")) = 1

LegacyToNew(k) ==
    CASE k = "Proxy" -> "proxies"
      [] k = "Proxy Group" -> "proxy-groups"
      [] OTHER -> k

\* A document with the legacy names written as the new ones: the keys Proxy
\* and Proxy Group, and the mode token Script.
NewNames(y) ==
    IF is_mapping(y)
    THEN YMap([i \in DOMAIN y.m |->
                <<LegacyToNew(y.m[i][1]),
                  IF y.m[i][1] = "mode" /\ y.m[i][2] = YStr("Script")
                  THEN YStr("script") ELSE y.m[i][2]>>])
    ELSE y

\* The result of the same call with clash_new_field_name toggled.
OutputToggled ==
    proxy_to_clash(nodes, base_conf, ruleset_content_array, extra_proxy_group, clash_r,
                   [ext EXCEPT !.clash_new_field_name = ~@])

SlotKeys == {"proxies", "Proxy", "proxy-groups", "Proxy Group"}

C10_TemplateParseFailure ==
    pc = "clash_done" =>
        /\ ~base_conf.valid => output = EmptyString
        /\ (base_conf.valid /\ is_null(base_conf.doc)) =>
              /\ output.kind = "yaml"
              /\ is_mapping(output.doc)
              /\ emitted_key(ext) \in yaml_keys(output.doc)
              /\ output = proxy_to_clash(nodes, Template(YMap(<<>>)), ruleset_content_array,
                                         extra_proxy_group, clash_r, ext)

\* Witness of C10: the template does not parse, in script mode, with a proxy
\* that would have been emitted.
C10_Witness ==
    /\ pc = "clash_done" /\ ~base_conf.valid /\ output = EmptyString
    /\ ~ext.nodelist /\ ext.enable_rule_generator /\ ext.clash_script
    /\ Len(nodes) = 2

(***************************************************************************)
(* Properties of proxy_to_clash_yaml (specification SpecYaml).             *)
(***************************************************************************)
\* The key the groups are written under.
ExpectedGroupsKey == IF ext.clash_new_field_name THEN "proxy-groups" ELSE "Proxy Group"

\* The generated groups, serialized, in generation order.
GeneratedGroups ==
    convert_proxy_groups(extra_proxy_group,
                         build_filtered_nodes_map(extra_proxy_group, 1, nodes, <<>>))

\* The index of the first element of the list with that name, 0 without one.
FirstNamed(list, name) ==
    IF \E i \in DOMAIN list : group_name_of(list[i]) = name
    THEN CHOOSE i \in DOMAIN list :
            /\ group_name_of(list[i]) = name
            /\ \A j \in 1..(i - 1) : group_name_of(list[j]) # name
    ELSE 0

\* The merge the claim describes, of the generated groups into a group list.
MergedAsClaimed(template_groups) ==
    LET Unmatched(g) == FirstNamed(template_groups, group_name_of(g)) = 0
        At(i) == {k \in DOMAIN GeneratedGroups :
                    FirstNamed(template_groups, group_name_of(GeneratedGroups[k])) = i}
    IN  [i \in DOMAIN template_groups |->
            IF At(i) # {} THEN GeneratedGroups[CHOOSE k \in At(i) : TRUE]
            ELSE template_groups[i]]
        \o SelectSeq(GeneratedGroups, Unmatched)

group_names(list) == [i \in DOMAIN list |-> group_name_of(list[i])]

members_of(entry) ==
    IF map_get(entry.m, "proxies") # None /\ map_get(entry.m, "proxies")[1].t = "seq"
    THEN [i \in DOMAIN map_get(entry.m, "proxies")[1].q |->
            map_get(entry.m, "proxies")[1].q[i].s]
    ELSE <<>>

Expansion(group) == expand_patterns(group.proxies, 1, nodes, <<>>)

NeedsDirect(group) == Expansion(group) = <<>> /\ group.using_provider = <<>>

\* The serialized group of a config in the result.
EmittedGroup(group) ==
    LET list == seq_at(yaml_node, ExpectedGroupsKey) IN
    {list[i] : i \in {j \in DOMAIN list :
                        /\ group_name_of(list[j]) = Some(group.name)
                        /\ str_at(list[j], "type") = Some(group.group_type)}}

RequestCode(behavior) ==
    CASE behavior = "classical" -> 6
      [] behavior = "domain" -> 3
      [] behavior = "ipcidr" -> 4

\* The url the rule-providers mapping holds for a provider name.
UrlOf(rule_providers, name) ==
    IF map_get(rule_providers, name) = None THEN None
    ELSE str_at(map_get(rule_providers, name)[1], "url")

\* C7: at return, for every provider the loop emitted, the url of its entry
\* in rule-providers is <prefix>/getruleset?type=<code>&url=<b64>, b64 being
\* the url-safe base64 of the typed path of the ruleset the provider came
\* from and code being 6, 3 or 4 by its behavior.
C7_ProviderUrl ==
    pc = "script_done" =>
        \A i \in DOMAIN script_parts.locals.providers :
            LET p == script_parts.locals.providers[i] IN
            UrlOf(script_parts.result[1].rule_providers, p.name)
                = Some(ext.managed_config_prefix \o "/getruleset?type="
                       \o ToString(RequestCode(p.behavior)) \o "&url="
                       \o url_safe_base64_encode(p.typed_path))

\* The ruleset the loop is at.
CurrentRuleset == ruleset_content_array[script_parts.idx]

\* A loop iteration.
RulesetStep ==
    /\ pc = "script_loop"
    /\ script_parts.idx <= Len(ruleset_content_array)
    /\ script_parts'.idx = script_parts.idx + 1

\* The ruleset is neither empty nor inline: it has content, the content is no
\* "[]" directive and it converts to text that is not blank.
HasRules(r) ==
    /\ r.content # ""
    /\ ~starts_with(r.content, "[]")
    /\ trim(convert_ruleset(r.content, r.rule_type)) # ""

BaseName(r) == provider_base_name_of(r.rule_path)

HasDomainLines(r) == has_domain_of(convert_ruleset(r.content, r.rule_type))

HasIpCidrLines(r) == has_ipcidr_of(convert_ruleset(r.content, r.rule_type))

\* What one iteration added to the providers and to the layouts.
NewProviders ==
    SubSeq(script_parts'.locals.providers, Len(script_parts.locals.providers) + 1,
           Len(script_parts'.locals.providers))

NewLayouts ==
    SubSeq(script_parts'.locals.layouts, Len(script_parts.locals.layouts) + 1,
           Len(script_parts'.locals.layouts))

KeepsEarlier ==
    /\ SubSeq(script_parts'.locals.providers, 1, Len(script_parts.locals.providers))
          = script_parts.locals.providers
    /\ SubSeq(script_parts'.locals.layouts, 1, Len(script_parts.locals.layouts))
          = script_parts.locals.layouts

\* C8: a ruleset that is neither empty nor inline and whose base name is MOO
\* or Download, or that has neither domain nor IP-CIDR lines, adds exactly
\* one provider, named the base name, classical, request type 6, and one
\* layout that holds this provider as its classical one and nothing else.
C8_ClassicalOverride ==
    [][(RulesetStep /\ HasRules(CurrentRuleset)
            /\ (\/ BaseName(CurrentRuleset) \in {"MOO", "Download"}
                \/ (~HasDomainLines(CurrentRuleset) /\ ~HasIpCidrLines(CurrentRuleset)))) =>
        /\ KeepsEarlier
        /\ Len(NewProviders) = 1
        /\ NewProviders[1].name = BaseName(CurrentRuleset)
        /\ NewProviders[1].behavior = "classical"
        /\ NewProviders[1].request_type = 6
        /\ NewLayouts = <<[classical |-> Some(NewProviders[1]), domain |-> None,
                           ipcidr |-> None]>>]_vars

\* Witness of C8: a MOO ruleset with a domain and an IP-CIDR line has given
\* the one classical provider MOO.
C8_Witness ==
    /\ pc = "script_loop" /\ script_parts.idx = 2
    /\ BaseName(ruleset_content_array[1]) = "MOO"
    /\ HasDomainLines(ruleset_content_array[1]) /\ HasIpCidrLines(ruleset_content_array[1])
    /\ Len(script_parts.locals.providers) = 1
    /\ script_parts.locals.providers[1].name = "MOO"
    /\ script_parts.locals.providers[1].behavior = "classical"

\* The match block of the script for a provider name, a group and a label.
MatchBlockText(name, group, label) ==
    "  if ctx.rule_providers[\"" \o name \o "\"].match(md):\n"
        \o "    ctx.log('[Script] matched " \o group \o " " \o label \o "')\n"
        \o "    return \"" \o group \o "\"\n\n"

\* C9: a ruleset whose base name is Apple adds no ipcidr provider; with
\* domain and IP-CIDR lines it adds the one provider Apple_domain, and its
\* layout is written as the domain match block followed by two blank lines.
C9_AppleIpSuppression ==
    [][(RulesetStep /\ HasRules(CurrentRuleset) /\ BaseName(CurrentRuleset) = "Apple") =>
        /\ KeepsEarlier
        /\ \A i \in DOMAIN NewProviders : NewProviders[i].behavior # "ipcidr"
        /\ (HasDomainLines(CurrentRuleset) /\ HasIpCidrLines(CurrentRuleset)) =>
              /\ Len(NewProviders) = 1
              /\ NewProviders[1].name = "Apple_domain"
              /\ NewProviders[1].behavior = "domain"
              /\ NewLayouts = <<[classical |-> None, domain |-> Some(NewProviders[1]),
                                 ipcidr |-> None]>>
              /\ layout_code(NewLayouts[1])
                    = MatchBlockText("Apple_domain", CurrentRuleset.group, "DOMAIN rule")
                        \o "\n\n"]_vars

\* Witness of C9: an Apple ruleset with domain and IP-CIDR lines has given
\* the one provider Apple_domain.
C9_Witness ==
    /\ pc = "script_loop" /\ script_parts.idx = 2
    /\ BaseName(ruleset_content_array[1]) = "Apple"
    /\ HasDomainLines(ruleset_content_array[1]) /\ HasIpCidrLines(ruleset_content_array[1])
    /\ Len(script_parts.locals.providers) = 1
    /\ script_parts.locals.providers[1].name = "Apple_domain"
    /\ script_parts.locals.layouts[1].ipcidr = None

(***************************************************************************)
(* Frame of proxy_to_clash on the template (specification Spec).           *)
(***************************************************************************)
\* The top-level keys the generator writes or strips.
KnownSlots ==
    {"proxies", "Proxy", "proxy-groups", "Proxy Group", "rules", "Rule",
     "script", "rule-providers", "mode"}

\* C11: outside nodelist mode, for a template that is a mapping, every
\* top-level key outside the known slots is in the document of the result
\* with the value the template gave it, whatever enable_rule_generator,
\* clash_script and clash_new_field_name are.
C11_TemplateKeysKept ==
    (pc = "clash_done" /\ ~ext.nodelist /\ base_conf.valid /\ is_mapping(base_conf.doc)) =>
        /\ is_mapping(output.doc)
        /\ \A k \in yaml_keys(base_conf.doc) \ KnownSlots :
              yaml_get(output.doc, k) = yaml_get(base_conf.doc, k)

\* Witness of C11: script mode has written proxies, groups, rule-providers
\* and script into a template that holds port and dns.
C11_Witness ==
    /\ pc = "clash_done" /\ ~ext.nodelist /\ ext.enable_rule_generator /\ ext.clash_script
    /\ {"port", "dns"} \subseteq yaml_keys(base_conf.doc)
    /\ {"rule-providers", "script", "port", "dns"} \subseteq yaml_keys(output.doc)
    /\ yaml_keys(output.doc) \cap {"proxy-groups", "Proxy Group"} # {}

(***************************************************************************)
(* The emitted proxy list (specification SpecYaml).                        *)
(***************************************************************************)
\* The skip rules: Unknown and HTTPS, Snell from version 4 on, and with
\* filter_deprecated the chacha20 Shadowsocks and the unsupported SSR.
MatchesSkipRule(n) ==
    \/ n.proxy_type \in {"Unknown", "HTTPS"}
    \/ (n.proxy_type = "Snell" /\ n.snell_version >= 4)
    \/ (ext.filter_deprecated /\ IsChacha20SsNode(n))
    \/ (ext.filter_deprecated /\ IsSsrNode(n) /\ ~SsrSupported(n))

PassesFilter(n) == ~MatchesSkipRule(n)

\* What identifies a proxy besides its name, read from a serialized entry and
\* from an input proxy.
entry_fields(q) ==
    [i \in DOMAIN q |->
        <<str_at(q[i], "type"), str_at(q[i], "cipher"), str_at(q[i], "protocol"),
          str_at(q[i], "obfs"), str_at(q[i], "version")>>]

node_fields(q) ==
    [i \in DOMAIN q |->
        <<Some(clash_type(q[i].proxy_type)), q[i].encrypt_method, q[i].protocol, q[i].obfs,
          IF q[i].proxy_type = "Snell" THEN Some(ToString(q[i].snell_version)) ELSE None>>]

\* C12: the emitted proxies are the input proxies that no skip rule matches,
\* in input order and each once; no Unknown or HTTPS proxy and no Snell proxy
\* of version 4 or more is among them, whatever the flags (read in the
\* document the proxies are written to, a mapping).
C12_EmittedIsFilteredSubsequence ==
    (pc = "yaml_done" /\ is_mapping(yaml_node)) =>
        /\ entry_fields(emitted_yaml) = node_fields(SelectSeq(nodes, PassesFilter))
        /\ \A i \in DOMAIN emitted_yaml :
              /\ str_at(emitted_yaml[i], "type") \notin {Some("unknown"), Some("http")}
              /\ str_at(emitted_yaml[i], "type") = Some("snell") =>
                    str_at(emitted_yaml[i], "version") = Some("3")

\* Witness of C12: with filter_deprecated off a Snell 4 proxy was skipped and
\* a chacha20 Shadowsocks proxy after it was emitted.
C12_Witness ==
    /\ pc = "yaml_done" /\ ~ext.filter_deprecated
    /\ Len(nodes) = 2
    /\ nodes[1].proxy_type = "Snell" /\ nodes[1].snell_version = 4
    /\ IsChacha20SsNode(nodes[2])
    /\ entry_fields(emitted_yaml) = << <<Some("ss"), Some("chacha20"), None, None, None>> >>

(***************************************************************************)
(* The HTTP handlers of web_handlers/web_api.rs: profile_handler           *)
(* (GET /getprofile) and ruleset_handler (GET /getruleset).  settings is   *)
(* Settings::current(), query the deserialized query string, world what    *)
(* the handler finds outside: the files that exist, whether the upstream   *)
(* answers a fetch, what the conversion returns.  calls lists the calls a  *)
(* handler made to the file system, the fetcher and the converter, and     *)
(* response is the HttpResponse it returned.                               *)
(***************************************************************************)
Ok(v) == [ok |-> TRUE, value |-> v]

Err(e) == [ok |-> FALSE, error |-> e]

HttpResponse(status, body) == [status |-> status, body |-> body]

\* is_api_authorized that compares the token also when none is configured.
is_api_authorized_always_compares(token, s) ==
    unwrap_or(token, "") = s.api_access_token

is_api_authorized(token, s) ==
    IF s.api_access_token = "" THEN TRUE
    ELSE unwrap_or(token, "") = s.api_access_token

\* What a profile file is to the reader: absent, a profile that converts to a
\* query, or a file that fails at one of the steps.
FileStates == {"absent", "ok", "unparsable", "no_section", "bad_query"}

file_exists(files, path) == path \in DOMAIN files /\ files[path] # "absent"

\* The body of the loop of load_profile_query for the candidate paths from i on.
RECURSIVE load_profile_from(_, _, _, _, _)
load_profile_from(candidate_paths, i, files, made, profile_name) ==
    IF i > Len(candidate_paths)
    THEN [result |-> Err("profile not found: " \o profile_name), calls |-> made]
    ELSE LET path == candidate_paths[i]
             probed == Append(made, <<"file_exists", path>>)
             parsed == Append(probed, <<"parse_file", path>>)
         IN  IF ~file_exists(files, path)
             THEN load_profile_from(candidate_paths, i + 1, files, probed, profile_name)
             ELSE IF files[path] = "unparsable"
             THEN [result |-> Err("failed to parse profile '" \o path \o "'"), calls |-> parsed]
             ELSE IF files[path] = "no_section"
             THEN [result |-> Err("profile '" \o path \o "' has no [Profile] section"),
                   calls |-> parsed]
             ELSE IF files[path] = "bad_query"
             THEN [result |-> Err("failed converting profile '" \o path \o "' to query"),
                   calls |-> parsed]
             ELSE [result |-> Ok([profile |-> path]), calls |-> parsed]

load_profile_query(profile_name, files) ==
    LET candidate_paths == IF starts_with(profile_name, "base/") THEN <<profile_name>>
                           ELSE <<profile_name, "base/" \o profile_name>>
    IN  load_profile_from(candidate_paths, 1, files, <<>>, profile_name)

\* SubResponse::to_http_response
to_http_response(sub_response) == HttpResponse(sub_response.status_code, sub_response.content)

profile_handler(q, s, w) ==
    IF ~is_api_authorized(q.token, s)
    THEN [response |-> HttpResponse(403, "Forbidden"), calls |-> <<>>]
    ELSE LET loaded == load_profile_query(q.name, w.files) IN
         IF ~loaded.result.ok
         THEN [response |-> HttpResponse(400, loaded.result.error), calls |-> loaded.calls]
         ELSE [response |->
                  IF w.sub_process.ok THEN to_http_response(w.sub_process.value)
                  ELSE HttpResponse(500, "Internal server error: " \o w.sub_process.error),
               calls |-> Append(loaded.calls, <<"sub_process", loaded.result.value.profile>>)]

\* The texts the decoder is given: ruleset urls and group names.
DecodePool ==
    {"https://h/a.list", "clash-domain:https://h/d.yaml", "lists/a.list", "Proxy"}

\* url_safe_base64_decode: the text whose encoding the argument is, the empty
\* string when it is none.
url_safe_base64_decode(s) ==
    IF \E x \in DecodePool : url_safe_base64_encode(x) = s
    THEN CHOOSE x \in DecodePool : url_safe_base64_encode(x) = s
    ELSE ""

\* RULESET_TYPES: the type prefixes of a typed path.
RULESET_TYPES ==
    << <<"clash-domain:", "ClashDomain">>, <<"clash-ipcidr:", "ClashIpCidr">>,
       <<"clash-classic:", "ClashClassical">>, <<"surge:", "Surge">> >>

get_ruleset_type_from_url(url) ==
    LET hits == {i \in DOMAIN RULESET_TYPES : starts_with(url, RULESET_TYPES[i][1])} IN
    IF hits = {} THEN None
    ELSE Some(RULESET_TYPES[CHOOSE i \in hits : \A j \in hits : i <= j][2])

\* The prefix loop of build_ruleset_response: the url without the prefix of
\* its detected type.
strip_type_prefix(decoded_url, detected) ==
    LET hits == {i \in DOMAIN RULESET_TYPES :
                    /\ starts_with(decoded_url, RULESET_TYPES[i][1])
                    /\ RULESET_TYPES[i][2] = detected}
    IN  IF hits = {} THEN decoded_url
        ELSE LET i == CHOOSE k \in hits : \A j \in hits : k <= j IN
             SubSeq(decoded_url, Len(RULESET_TYPES[i][1]) + 1, Len(decoded_url))

is_http(url) == starts_with(url, "http://") \/ starts_with(url, "https://")

\* The text behind a url or a path.
RawOf(url) ==
    IF ends_with(url, ".yaml") THEN "payload:\n  - '+.d.com'\n  - 'e.com'\n"
    ELSE "DOMAIN,a.com\n# c\nDOMAIN-SUFFIX,b.com\n\nIP-CIDR,1.0.0.0/8,no-resolve\nFINAL\n"

\* fetch_ruleset: a remote url is answered by the upstream or not, a path is
\* read when the file exists.
fetch_ruleset(url, w) ==
    IF is_http(url)
    THEN IF w.upstream_ok THEN Ok(RawOf(url)) ELSE Err("request failed")
    ELSE IF file_exists(w.files, url) THEN Ok(RawOf(url)) ELSE Err("file not found")

RECURSIVE join(_, _)
join(q, sep) ==
    IF q = <<>> THEN ""
    ELSE IF Len(q) = 1 THEN q[1]
    ELSE q[1] \o sep \o join(Tail(q), sep)

RECURSIVE replace_quote(_)
replace_quote(s) ==
    IF s = "" THEN ""
    ELSE (IF Char(s, 1) = "'" THEN "''" ELSE Char(s, 1)) \o replace_quote(SubSeq(s, 2, Len(s)))

build_clash_payload(ls) ==
    "payload:\n" \o join([i \in DOMAIN ls |-> "  - '" \o replace_quote(ls[i]) \o "'"], "\n")
        \o "\n"

normalize_rules_lines(content) ==
    LET trimmed == [i \in DOMAIN lines(content) |-> trim(lines(content)[i])]
        kept(l) == ~is_comment_or_blank(l)
    IN  SelectSeq(trimmed, kept)

\* extract_rule_value: the first two comma-separated fields, trimmed.
extract_rule_value(line) ==
    LET parts == split(line, ",") IN
    IF Len(parts) < 2 THEN None ELSE Some(<<trim(parts[1]), trim(parts[2])>>)

\* transform_rule_to_common(line, group, true): the group goes after the value.
transform_rule_to_common(line, group) ==
    LET parts == split(line, ",") IN
    IF Len(parts) < 2 THEN line \o "," \o group
    ELSE join(<<parts[1], parts[2], group>> \o SubSeq(parts, 3, Len(parts)), ",")

\* The payload entry of a rule for a domain provider, None when it has none.
domain_payload_of(line) ==
    LET payload(rv) ==
            IF rv = None THEN None
            ELSE CASE rv[1][1] = "DOMAIN" -> Some(rv[1][2])
                   [] rv[1][1] = "DOMAIN-SUFFIX" -> Some("+." \o rv[1][2])
                   [] rv[1][1] = "DOMAIN-KEYWORD" -> Some("*" \o rv[1][2] \o "*")
                   [] OTHER -> None
    IN  payload(extract_rule_value(line))

ipcidr_payload_of(line) ==
    LET payload(rv) ==
            IF rv = None THEN None
            ELSE IF rv[1][1] \in {"IP-CIDR", "IP-CIDR6"} THEN Some(rv[1][2]) ELSE None
    IN  payload(extract_rule_value(line))

\* filter_map over the lines: the values of the Some results, in order.
RECURSIVE filter_map(_, _)
filter_map(opts, i) ==
    IF i > Len(opts) THEN <<>>
    ELSE opts[i] \o filter_map(opts, i + 1)

\* The match on query.rule_type.
ruleset_output(rule_type, surge_lines, group) ==
    CASE rule_type = 1 -> Ok(join(surge_lines, "\n") \o "\n")
      [] rule_type = 2 ->
            Ok(join([i \in DOMAIN surge_lines |->
                        transform_rule_to_common(surge_lines[i], group)], "\n") \o "\n")
      [] rule_type = 3 ->
            Ok(build_clash_payload(
                  filter_map([i \in DOMAIN surge_lines |-> domain_payload_of(surge_lines[i])], 1)))
      [] rule_type = 4 ->
            Ok(build_clash_payload(
                  filter_map([i \in DOMAIN surge_lines |-> ipcidr_payload_of(surge_lines[i])], 1)))
      [] rule_type = 6 -> Ok(build_clash_payload(surge_lines))
      [] OTHER -> Err("unsupported ruleset type")

\* The function in the order of its statements: the url is decoded, its type
\* detected and its prefix stripped, a local path is probed, the group is
\* decoded, the content is fetched, converted and written in the asked type.
build_ruleset_response(q, w) ==
    LET output_of(raw, made, source_type, group) ==
            IF ~raw.ok
            THEN [result |-> Err("failed to fetch ruleset: " \o raw.error), calls |-> made]
            ELSE [result |-> ruleset_output(q.rule_type,
                                normalize_rules_lines(convert_ruleset(raw.value, source_type)),
                                group),
                  calls |-> made]
        fetched(fetch_url, probes, source_type, group) ==
            output_of(fetch_ruleset(fetch_url, w),
                      Append(probes, <<"fetch_ruleset", fetch_url>>), source_type, group)
        located(stripped, source_type, group) ==
            LET probe_first == ~is_http(stripped)
                probe_fallback == probe_first /\ ~file_exists(w.files, stripped)
                fallback == "base/" \o stripped
            IN  fetched(IF probe_fallback /\ file_exists(w.files, fallback) THEN fallback
                        ELSE stripped,
                        (IF probe_first THEN <<<<"file_exists", stripped>>>> ELSE <<>>)
                            \o (IF probe_fallback THEN <<<<"file_exists", fallback>>>>
                                ELSE <<>>),
                        source_type, group)
        group_of(decoded_group) == IF decoded_group = "" THEN "DIRECT" ELSE decoded_group
        typed(decoded_url, detected) ==
            located(IF detected = None THEN decoded_url
                    ELSE strip_type_prefix(decoded_url, detected[1]),
                    unwrap_or(detected, "Surge"),
                    IF q.group = None THEN "DIRECT"
                    ELSE group_of(url_safe_base64_decode(q.group[1])))
        decoded(decoded_url) == typed(decoded_url, get_ruleset_type_from_url(decoded_url))
    IN  decoded(url_safe_base64_decode(q.url))

ruleset_handler(q, w) ==
    LET answer(built) ==
            [response |-> IF built.result.ok THEN HttpResponse(200, built.result.value)
                          ELSE HttpResponse(400, built.result.error),
             calls |-> built.calls]
    IN  answer(build_ruleset_response(q, w))

ProfileQuery(name, token) == [name |-> name, token |-> token]

RulesetQuery(rule_type, url, group) == [rule_type |-> rule_type, url |-> url, group |-> group]

\* A request to /getprofile: a configured token or none, a query with any
\* token or none, profile files in every state, and every outcome of the
\* conversion.
InitProfile ==
    /\ pc = "profile"
    /\ settings \in {[api_access_token |-> t] : t \in {"", "secret"}}
    /\ query \in {ProfileQuery(n, t) :
                    n \in {"p.ini", "base/p.ini"},
                    t \in {None, Some(""), Some("secret"), Some("wrong")}}
    /\ \E files \in [{"p.ini", "base/p.ini"} -> FileStates],
          sub \in {Ok([status_code |-> c, content |-> "body"]) : c \in {200, 400, 500}}
                  \cup {Err("conversion failed")} :
          world = [files |-> files, upstream_ok |-> TRUE, sub_process |-> sub]

\* A request to /getruleset: every type from 0 to 7, remote and local urls
\* with and without a type prefix, an upstream that answers or not, and local
\* files that exist or not.
InitRuleset ==
    /\ pc = "ruleset"
    /\ settings = [api_access_token |-> ""]
    /\ query \in {RulesetQuery(t, url_safe_base64_encode(u), g) :
                    t \in 0..7,
                    u \in {"https://h/a.list", "clash-domain:https://h/d.yaml", "lists/a.list"},
                    g \in {None, Some(url_safe_base64_encode("Proxy")), Some("")}}
    /\ \E files \in [{"lists/a.list", "base/lists/a.list"} -> {"absent", "ok"}],
          up \in BOOLEAN :
          world = [files |-> files, upstream_ok |-> up,
                   sub_process |-> Err("not called")]

InitWeb ==
    /\ (InitProfile \/ InitRuleset)
    /\ calls = <<>>
    /\ response = Idle
    /\ nodes = <<>>
    /\ yaml_node = YNull
    /\ base_conf = Idle
    /\ ruleset_content_array = <<>>
    /\ extra_proxy_group = <<>>
    /\ clash_r = FALSE
    /\ ext = Ext(FALSE, FALSE, FALSE, TRUE, FALSE, FALSE, "")
    /\ output = Idle
    /\ script_parts = Idle

\* GET /getprofile
ProfileHandler ==
    /\ pc = "profile"
    /\ \E handled \in {profile_handler(query, settings, world)} :
          /\ response' = handled.response
          /\ calls' = handled.calls
    /\ pc' = "profile_done"
    /\ UNCHANGED <<nodes, yaml_node, base_conf, ruleset_content_array, extra_proxy_group,
                   clash_r, ext, output, script_parts, settings, query, world>>

\* GET /getruleset
RulesetHandler ==
    /\ pc = "ruleset"
    /\ \E handled \in {ruleset_handler(query, world)} :
          /\ response' = handled.response
          /\ calls' = handled.calls
    /\ pc' = "ruleset_done"
    /\ UNCHANGED <<nodes, yaml_node, base_conf, ruleset_content_array, extra_proxy_group,
                   clash_r, ext, output, script_parts, settings, query, world>>

NextWeb == ProfileHandler \/ RulesetHandler

SpecWeb == InitWeb /\ [][NextWeb]_vars

(***************************************************************************)
(* Properties of the handlers (specification SpecWeb).                     *)
(***************************************************************************)
\* C13: on /getprofile, when the configured token is not empty and the token
\* of the query is absent or another, the answer is 403 and the handler has
\* neither touched a profile file nor started a conversion; when the
\* configured token is empty the request is authorized whatever its token:
\* the handler goes on to look for the profile and the answer is not the
\* handler's 403.
C13_ProfileAuthorization ==
    pc = "profile_done" =>
        /\ (settings.api_access_token # ""
               /\ (query.token = None \/ query.token # Some(settings.api_access_token))) =>
              /\ response = HttpResponse(403, "Forbidden")
              /\ calls = <<>>
        /\ settings.api_access_token = "" =>
              /\ response.status # 403
              /\ calls # <<>>
              /\ calls[1] = <<"file_exists", query.name>>

\* Witness of C13: a request with a wrong token, for a profile that exists,
\* was refused.
C13_Witness ==
    /\ pc = "profile_done"
    /\ settings.api_access_token = "secret" /\ query.token = Some("wrong")
    /\ world.files[query.name] = "ok" /\ world.sub_process.ok
    /\ response.status = 403 /\ calls = <<>>

\* C14 as stated: /getruleset answers 400 for a type outside {1,2,3,4,6},
\* answers 200 only for a type of these whose fetch succeeded, and reports an
\* error inside the handler, the failed fetch among them, by the taxonomy of
\* the surface: 500 for an internal error.
C14_RulesetStatus ==
    pc = "ruleset_done" =>
        LET fetched == \E i \in DOMAIN calls :
                          calls[i][1] = "fetch_ruleset"
                          /\ fetch_ruleset(calls[i][2], world).ok
        IN  /\ query.rule_type \notin {1, 2, 3, 4, 6} => response.status = 400
            /\ response.status = 200 => (query.rule_type \in {1, 2, 3, 4, 6} /\ fetched)
            /\ (query.rule_type \in {1, 2, 3, 4, 6} /\ ~fetched) => response.status = 500

(***************************************************************************)
(* More properties of build_clash_script_parts (specification SpecScript). *)
(***************************************************************************)
ClassicalOnly(layout) ==
    layout.classical # None /\ layout.domain = None /\ layout.ipcidr = None

DomainOrIpCidr(layout) ==
    layout.classical = None /\ (layout.domain # None \/ layout.ipcidr # None)

\* C15: every layout in the layout list is classical-only or holds a domain
\* or an ipcidr provider and no classical one; none has all three absent.
C15_LayoutShapes ==
    \A i \in DOMAIN script_parts.locals.layouts :
        \/ ClassicalOnly(script_parts.locals.layouts[i])
        \/ DomainOrIpCidr(script_parts.locals.layouts[i])

(***************************************************************************)
(* Remarks and group members (specification SpecYaml).                     *)
(***************************************************************************)
\* The remark of a proxy with the type in front when append_proxy_type is on.
Prefixed(n) ==
    IF ext.append_proxy_type THEN "[" \o proxy_type_name(n.proxy_type) \o "] " \o n.remark
    ELSE n.remark

emitted_names == [i \in DOMAIN emitted_yaml |-> str_at(emitted_yaml[i], "name")]

\* C16: a kept proxy whose remark, prefixed or not, is the emitted name of no
\* earlier kept proxy is emitted under that remark unchanged, also when a
\* skipped proxy before it had the same remark; the emitted names are
\* pairwise distinct.
C16_RemarkAgainstKeptOnly ==
    (pc = "yaml_done" /\ is_mapping(yaml_node)) =>
        LET kept == SelectSeq(nodes, PassesFilter) IN
        /\ Len(emitted_names) = Len(kept)
        /\ \A i \in DOMAIN emitted_names :
              (\A j \in 1..(i - 1) : emitted_names[j] # Some(Prefixed(kept[i]))) =>
                  emitted_names[i] = Some(Prefixed(kept[i]))
        /\ \A i, j \in DOMAIN emitted_names : i # j => emitted_names[i] # emitted_names[j]

\* The members a config names literally ("[]X") and the one the fallback adds.
LiteralMembers(group) ==
    {SubSeq(group.proxies[i], 3, Len(group.proxies[i])) :
        i \in {j \in DOMAIN group.proxies : starts_with(group.proxies[j], "[]")}}

\* C17: every name that pattern expansion put in the member list of a group
\* is the emitted name of a proxy of the output proxies list.
C17_MembersAreEmitted ==
    (pc = "yaml_done" /\ ~ext.nodelist /\ is_mapping(yaml_node)) =>
        \A k \in DOMAIN extra_proxy_group :
            \A entry \in EmittedGroup(extra_proxy_group[k]) :
                \A m \in Range(members_of(entry)) :
                    \/ m \in LiteralMembers(extra_proxy_group[k])
                    \/ (m = "DIRECT" /\ NeedsDirect(extra_proxy_group[k]))
                    \/ Some(m) \in Range(emitted_names)

\* The providers the layouts hold, in the order the script writes their blocks.
RECURSIVE layout_providers(_, _)
layout_providers(layouts, i) ==
    IF i > Len(layouts) THEN <<>>
    ELSE (IF layouts[i].classical # None THEN layouts[i].classical
          ELSE layouts[i].domain \o layouts[i].ipcidr)
         \o layout_providers(layouts, i + 1)

\* C18: at return the rule-providers mapping has one entry per emitted
\* provider, in the order the providers were emitted (ruleset order, a domain
\* provider right before the ipcidr provider of the same ruleset), and the
\* match blocks of the script are those of the same providers in that order,
\* also when two rulesets have the same base name.
C18_OneEntryPerProvider ==
    pc = "script_done" =>
        LET providers == script_parts.locals.providers
            rule_providers == script_parts.result[1].rule_providers
        IN  /\ [i \in DOMAIN rule_providers |-> rule_providers[i][1]]
                  = [i \in DOMAIN providers |-> providers[i].name]
            /\ layout_providers(script_parts.locals.layouts, 1) = providers

IsInline(r) == starts_with(r.content, "[]")

\* The directive of an inline ruleset: the content after "[]", trimmed.
Directive(r) == trim(SubSeq(r.content, 3, Len(r.content)))

IsFinalDirective(r) == IsInline(r) /\ Directive(r) \in {"FINAL", "MATCH"}

IsGeoipDirective(r) == IsInline(r) /\ starts_with(Directive(r), "GEOIP,")

\* The group of the last FINAL or MATCH ruleset, DIRECT without one.
ExpectedFinalGroup ==
    LET finals == {i \in DOMAIN ruleset_content_array :
                      IsFinalDirective(ruleset_content_array[i])}
    IN  IF finals = {} THEN "DIRECT"
        ELSE ruleset_content_array[CHOOSE i \in finals : \A j \in finals : j <= i].group

\* One (code, group) pair per GEOIP ruleset, in ruleset order.
ExpectedGeoips ==
    LET geo == SelectSeq(ruleset_content_array, IsGeoipDirective) IN
    [i \in DOMAIN geo |-> <<trim(split(Directive(geo[i]), ",")[2]), geo[i].group>>]

RECURSIVE GeoipsText(_)
GeoipsText(geoips) ==
    IF geoips = <<>> THEN ""
    ELSE "\"" \o geoips[1][1] \o "\": \"" \o geoips[1][2] \o "\""
         \o (IF Len(geoips) > 1 THEN ", " \o GeoipsText(Tail(geoips)) ELSE "")

\* The end of the script: the geoips table, then the tail with the final
\* group in its three places.
ScriptTailText(geoips, final_group) ==
    "  geoips = {" \o (IF geoips = <<>> THEN "" ELSE " " \o GeoipsText(geoips) \o " ") \o "}\n"
        \o "  ip = md[\"dst_ip\"]\n  if ip == \"\":\n    ip = ctx.resolve_ip(host)\n"
        \o "    if ip == \"\":\n      ctx.log('[Script] dns lookup error use "
        \o final_group \o "')\n      return \"" \o final_group \o "\"\n"
        \o "  for key in geoips:\n    if ctx.geoip(ip) == key:\n      return geoips[key]\n"
        \o "  return \"" \o final_group \o "\""

\* C19: at return the final group is that of the last ruleset whose directive
\* is exactly FINAL or MATCH, DIRECT without one, and the script ends with the
\* geoips table of the GEOIP rulesets in ruleset order and the tail that uses
\* this group three times; and an iteration on an empty or inline ruleset
\* adds no provider and no layout, and adds a GeoIP entry only for a GEOIP
\* directive.
C19_InlineDirectives ==
    /\ [](pc = "script_done" =>
            /\ script_parts.locals.final_group = ExpectedFinalGroup
            /\ script_parts.locals.geoips = ExpectedGeoips
            /\ ends_with(script_parts.result[1].script_code,
                         "\n" \o ScriptTailText(ExpectedGeoips, ExpectedFinalGroup)))
    /\ [][(RulesetStep /\ (CurrentRuleset.content = "" \/ IsInline(CurrentRuleset))) =>
            /\ script_parts'.locals.providers = script_parts.locals.providers
            /\ script_parts'.locals.layouts = script_parts.locals.layouts
            /\ ~IsGeoipDirective(CurrentRuleset) =>
                  script_parts'.locals.geoips = script_parts.locals.geoips]_vars

\* Witness of C19: a MATCH ruleset after a FINAL ruleset has given the final
\* group.
C19_Witness ==
    /\ pc = "script_done"
    /\ Len(ruleset_content_array) = 2
    /\ ruleset_content_array[1].content = "[]FINAL"
    /\ ruleset_content_array[2].content = "[] MATCH "
    /\ script_parts.locals.final_group = "Proxy"
    /\ ends_with(script_parts.result[1].script_code, "  return \"Proxy\"")

(***************************************************************************)
(* Script mode of proxy_to_clash (specification Spec).                     *)
(***************************************************************************)
ScriptMode == ~ext.nodelist /\ ext.enable_rule_generator /\ ext.clash_script

\* The template is a mapping, or null and so taken as the empty mapping.
TemplateDocument == IF is_null(base_conf.doc) THEN YMap(<<>>) ELSE base_conf.doc

GeneratedParts == build_clash_script_parts(ruleset_content_array, ext.managed_config_prefix)

\* C20 as stated: in script mode the generated rule-providers and script are
\* in the output exactly when managed_config_prefix is not empty, whatever the
\* template, and no rules text follows.
C20_ScriptModeForEveryTemplate ==
    (pc = "clash_done" /\ ScriptMode /\ base_conf.valid) =>
        /\ ext.managed_config_prefix # "" <=>
              /\ yaml_get(output.doc, "rule-providers")
                    = Some(YMap(GeneratedParts.rule_providers))
              /\ yaml_get(output.doc, "script")
                    = Some(YMap(<< <<"code", YStr(GeneratedParts.script_code)>> >>))
        /\ output.tail = None

\* C20, amended: in script mode, for a template that is a mapping, rule-providers and
\* script hold the generated mapping and code when managed_config_prefix is
\* not empty and are what the template had (or absent) when it is empty; mode
\* is "script" (new names) or "Script" (legacy) when the template had a mode
\* key and is absent when it had none; and no rules text follows the document.
C20_ScriptMode ==
    (pc = "clash_done" /\ ScriptMode /\ base_conf.valid /\ is_mapping(TemplateDocument)) =>
        /\ ext.managed_config_prefix # "" =>
              /\ yaml_get(output.doc, "rule-providers")
                    = Some(YMap(GeneratedParts.rule_providers))
              /\ yaml_get(output.doc, "script")
                    = Some(YMap(<< <<"code", YStr(GeneratedParts.script_code)>> >>))
        /\ ext.managed_config_prefix = "" =>
              /\ yaml_get(output.doc, "rule-providers")
                    = yaml_get(TemplateDocument, "rule-providers")
              /\ yaml_get(output.doc, "script") = yaml_get(TemplateDocument, "script")
        /\ yaml_get(output.doc, "mode")
              = IF "mode" \in yaml_keys(TemplateDocument)
                THEN Some(YStr(IF ext.clash_new_field_name THEN "script" ELSE "Script"))
                ELSE None
        /\ output.tail = None

\* Witness of C20: script mode with a prefix, legacy names, rulesets and a
\* template with a mode has given rule-providers, script and the mode Script.
C20_Witness ==
    /\ pc = "clash_done" /\ ScriptMode /\ ~ext.clash_new_field_name
    /\ ext.managed_config_prefix # "" /\ ruleset_content_array # <<>>
    /\ yaml_get(base_conf.doc, "mode") = Some(YStr("Rule"))
    /\ yaml_get(output.doc, "mode") = Some(YStr("Script"))
    /\ yaml_get(output.doc, "rule-providers") # None
    /\ yaml_get(output.doc, "rule-providers")[1].m # <<>>
    /\ yaml_get(output.doc, "script") # None

====
